---- MODULE Spec2Model ----
(***************************************************************************)
(* Process and file subsystem of the kernel: the PID table (pid.c), the    *)
(* global open-file table and the per-process descriptor tables (file.c,   *)
(* file_syscalls.c) and the process system calls (proc_syscalls.c,         *)
(* execv.c).                                                               *)
(*                                                                         *)
(* Every critical section of the code runs under pt_lock or under the      *)
(* open-file-table lock oft_l and contains no blocking call other than     *)
(* cv_wait and the VOP calls, so a critical section is one atomic action;   *)
(* cv_wait splits pid_wait in two actions, pid_exit is followed by a       *)
(* separate teardown step that runs after pt_lock has been released, and   *)
(* file_read and file_write are split at VOP_READ / VOP_WRITE, which may   *)
(* sleep while both locks are held.                                        *)
(*                                                                         *)
(* Memory that the code reads after freeing it, or without initialising    *)
(* it, has no defined content.  An open_file that was kfree'd while its    *)
(* address is still stored in the table is the slot state "freed"; a       *)
(* descriptor table that was kfree'd while curproc->fd_t still points to   *)
(* it has valid = FALSE; the PID-table slot that pidtable_init does not    *)
(* write is "null" or "garbage".  A call that works through such memory    *)
(* reads words that make it fail its checks, or it faults; a fault in      *)
(* kernel mode is a panic, after which no thread runs.                     *)
(***************************************************************************)
EXTENDS Integers, Sequences, FiniteSets, TLC

\* ------------------------------------------------------------- bounds
OPEN_MAX == 6          \* size of both file tables (kern/limits.h, scaled down)
PID_MAX == 4           \* highest PID (kern/limits.h, scaled down)
MaxProcs == 3          \* process objects that can exist at once
MaxStatus == 1         \* exit statuses are 0..MaxStatus
MaxFdArg == 1          \* user programs pass descriptors -1..MaxFdArg and OPEN_MAX to close and dup2
MaxRc == 3             \* dup2 is not taken on an open file that has MaxRc references
MaxOff == 3            \* no read or write is started that could move an offset past MaxOff
MaxIo == 2             \* user programs read and write 1..MaxIo bytes in one call
IntBits == 4           \* width of the C type int (scaled down from 32)
ARG_MAX == 6           \* size of sys_execv's argument buffer (kern/limits.h, scaled down)
PATH_MAX == 3          \* longest path with its terminator (kern/limits.h, scaled down)
MaxArgc == 3           \* user programs pass argument vectors of 0..MaxArgc strings
StackWords == 16       \* the user stack ends at address 4 * StackWords (USERSTACK, scaled down)
MaxLeak == 1           \* sys_fork is not followed on a failing path once MaxLeak trapframes are lost

\* ---------------------------------------------------------- constants
PID_MIN == 2
FILE_CLOSED == -1
PID_INVALID == -889275714   \* 0xcafebabe stored in a pid_t (32-bit int)
PID_BOOT == 1
O_RDONLY == 0
O_WRONLY == 1
O_RDWR == 2
O_ACCMODE == 3
WNOHANG == 1
WUNTRACED == 2
SEEK_SET == 0
SEEK_CUR == 1
SEEK_END == 2
O_CREAT == 4

Procs == 1..MaxProcs
Fds == 0..(OPEN_MAX - 1)
Pids == PID_MIN..PID_MAX
Statuses == 0..MaxStatus
NoProc == 0
\* the fd_table locks that can exist at once; 0 is the lock pointer of a freed table
LockIds == 0..MaxProcs

VARIABLES
    pid_table,   \* pid.c: pid_table[PID_MIN..PID_MAX], one proc_pid or NULL each
    of_t,        \* file.h: of_t->openfiles[0..OPEN_MAX-1]
    oft_l,       \* holder of of_t->oft_l, NoProc when free
    fd_t,        \* proc -> its fd_table (curproc->fd_t)
    pstate,      \* proc -> "none" | "run" | "io" | "sleep" | "woken" | "teardown" | "dup2" | "hung"
    p_pid,       \* proc -> curproc->p_pid
    wtarget,     \* proc -> the pid whose cv the process sleeps on in pid_wait
    exit_log,    \* history: pid -> status handed to pid_exit since the entry was created, -1 if none
    reaped,      \* history: the pids whose entry a pid_wait has destroyed
    panicked,    \* the kernel has panicked
    vn_data,     \* regular file -> its bytes (the file system under the VFS)
    io,          \* proc -> the uio of the read or write it is in the middle of
    fdt_l,       \* descriptor-table lock -> its holder, NoProc when free
    kheap,       \* kernel heap: the allocations of each kind that nothing refers to any more
    ex,          \* sys_execv at work on an argument vector: its buffers and the user stack
    last         \* history: the call that made the last step and what it returned

vars == <<pid_table, of_t, oft_l, fd_t, pstate, p_pid, wtarget, exit_log, reaped, panicked,
          vn_data, io, fdt_l, kheap, ex, last>>

\* ------------------------------------------------------- PID table (pid.c)
NullPid == [st |-> "null", pid_id |-> 0, ppid_id |-> 0, pid_estatus |-> 0, pid_exited |-> 0]
GarbagePid == [st |-> "garbage", pid_id |-> 0, ppid_id |-> 0, pid_estatus |-> 0, pid_exited |-> 0]

\* pidtable_init: the loop runs i < PID_MAX, so slot PID_MAX keeps whatever
\* kmalloc returned: a null pointer or any other word.
pidtable_init ==
    { [i \in Pids |-> IF i < PID_MAX THEN NullPid ELSE g] : g \in {NullPid, GarbagePid} }

Min(S) == CHOOSE x \in S : \A y \in S : x <= y

\* pid_next without the test for an empty slot
pid_next_unchecked(tab) == PID_MIN

\* pid_next: first NULL slot in PID_MIN..PID_MAX, else -1
pid_next(tab) ==
    IF \E i \in Pids : tab[i].st = "null"
    THEN Min({i \in Pids : tab[i].st = "null"})
    ELSE -1

\* the proc_pid that pid_create builds for pid with parent ppid
new_pid(pid, ppid) ==
    [st |-> "used", pid_id |-> pid, ppid_id |-> ppid, pid_estatus |-> 0, pid_exited |-> 0]

\* pid_create: the table after a successful create, and the PID returned
pid_create(tab, ppid) ==
    LET pid == pid_next(tab) IN
    IF pid = -1 THEN [tab |-> tab, pid |-> -1]
    ELSE [tab |-> [tab EXCEPT ![pid] = new_pid(pid, ppid)], pid |-> pid]

\* pid_destroy that frees the entry and leaves its address in the table
pid_destroy_keep(tab, pp) == tab

\* pid_destroy: pid_table[pp->pid_id] = NULL
pid_destroy(tab, pp) == [tab EXCEPT ![pp.pid_id] = NullPid]

\* a broadcast that reaches no sleeper
cv_broadcast_lost(ps, wt, pid) == ps

\* cv_broadcast(pp->pid_cv): every thread asleep on the entry's cv becomes runnable
\* and must take pt_lock again before it returns from cv_wait
cv_broadcast(ps, wt, pid) ==
    [q \in Procs |-> IF ps[q] = "sleep" /\ wt[q] = pid THEN "woken" ELSE ps[q]]

\* sys_waitpid without the check of options
sys_waitpid_args_noopt(pid, options) ==
    IF pid < PID_MIN \/ pid > PID_MAX THEN "ESRCH" ELSE "OK"

\* sys_waitpid, the checks made before pid_wait is called: the error, or "OK"
sys_waitpid_args(pid, options) ==
    IF pid < PID_MIN \/ pid > PID_MAX THEN "ESRCH"
    ELSE IF options # 0 /\ options # WUNTRACED /\ options # WNOHANG THEN "EINVAL"
    ELSE "OK"

\* pid_wait that does not look at pid_exited before it goes on
pid_wait_nowait(pp, ppid) ==
    IF pp.st = "null" THEN "ESRCH"
    ELSE IF pp.ppid_id # ppid THEN "ECHILD"
    ELSE "REAP"

\* pid_wait, the checks made under pt_lock before it waits: the error, "WAIT" when
\* the caller goes to sleep on the cv, "REAP" when the target has exited already
pid_wait_check(pp, ppid) ==
    IF pp.st = "null" THEN "ESRCH"
    ELSE IF pp.ppid_id # ppid THEN "ECHILD"
    ELSE IF pp.pid_exited = 0 THEN "WAIT"
    ELSE "REAP"

\* pid_wait after the wait: the parent field is invalidated, the status read,
\* and the entry destroyed
pid_wait_reap(tab, pp) ==
    LET dead == [pp EXCEPT !.ppid_id = PID_INVALID] IN
    [tab |-> pid_destroy(tab, dead), status |-> dead.pid_estatus]

\* pid_exit, the part under pt_lock: exited and the status are stored
pid_exit_mark(tab, pid, status) ==
    [tab EXCEPT ![pid].pid_exited = 1, ![pid].pid_estatus = status]

\* --------------------------------------------- open files (file.h, file.c)
Files == {"f"}
Flags == {O_RDWR}

NullFile == [st |-> "null", vn |-> "", am |-> 0, rc |-> 0, os |-> 0]
\* an open_file that file_close has kfree'd; its address is still in the table
FreedFile == [st |-> "freed", vn |-> "", am |-> 0, rc |-> 0, os |-> 0]

EmptyFdt == [valid |-> TRUE, lk |-> 0, e |-> [i \in Fds |-> FILE_CLOSED]]
\* a descriptor table that has been kfree'd, or the table of no process
FreedFdt == [valid |-> FALSE, lk |-> 0, e |-> [i \in Fds |-> FILE_CLOSED]]

\* fd_t->fd_entries[fd] = v
FdWrite(fdt, fd, v) == [fdt EXCEPT !.e[fd] = v]

\* file_open: the scan for the first FILE_CLOSED descriptor, -1 when there is none
FirstClosedFd(e) ==
    IF \E i \in Fds : e[i] = FILE_CLOSED
    THEN Min({i \in Fds : e[i] = FILE_CLOSED})
    ELSE -1

\* a scan of the open-file table that keeps the last NULL slot it sees
LastEmptySlot(oft) ==
    IF \E i \in Fds : oft[i].st = "null"
    THEN CHOOSE i \in Fds : oft[i].st = "null" /\ \A j \in Fds : oft[j].st = "null" => j <= i
    ELSE -1

\* file_open: the scan for the first NULL slot of the open-file table
FirstEmptySlot(oft) ==
    IF \E i \in Fds : oft[i].st = "null"
    THEN Min({i \in Fds : oft[i].st = "null"})
    ELSE -1

\* an open_file record that keeps the open flags as they came
new_open_file_raw(vn, flags) ==
    [st |-> "live", vn |-> vn, am |-> flags, rc |-> 1, os |-> 0]

\* file_open: the open_file record it builds
new_open_file(vn, flags) ==
    [st |-> "live", vn |-> vn, am |-> flags % (O_ACCMODE + 1), rc |-> 1, os |-> 0]

\* a file_open whose scan of the open-file table stops one slot short
file_open_short(fdt, oft, fd, vn, flags) ==
    LET of == FirstEmptySlot(oft) IN
    IF fd = -1 \/ of = -1 \/ of = OPEN_MAX - 1
    THEN [fdt |-> fdt, oft |-> oft, err |-> "EMFILE", fd |-> -1, vrefs |-> 0]
    ELSE [fdt |-> FdWrite(fdt, fd, of),
          oft |-> [oft EXCEPT ![of] = new_open_file(vn, flags)],
          err |-> "OK", fd |-> fd, vrefs |-> 1]

\* file_open after vfs_open succeeded, fd being the descriptor its scan found;
\* vrefs is what is left of the reference vfs_open took on the vnode (the full-table
\* path gives it back with vfs_close)
file_open(fdt, oft, fd, vn, flags) ==
    LET of == FirstEmptySlot(oft) IN
    IF fd = -1 \/ of = -1
    THEN [fdt |-> fdt, oft |-> oft, err |-> "EMFILE", fd |-> -1, vrefs |-> 1 - 1]
    ELSE [fdt |-> FdWrite(fdt, fd, of),
          oft |-> [oft EXCEPT ![of] = new_open_file(vn, flags)],
          err |-> "OK", fd |-> fd, vrefs |-> 1]

\* file_close from the read of the slot on, e being fd_entries[fd] >= 0:
\* the descriptor is closed; the last reference frees the open_file, and the
\* table keeps its address
file_close(fdt, oft, fd, e) ==
    IF oft[e].st = "null"
    THEN [fdt |-> fdt, oft |-> oft, err |-> "EBADF"]
    ELSE [fdt |-> FdWrite(fdt, fd, FILE_CLOSED),
          oft |-> IF oft[e].st = "freed" THEN oft
                  ELSE IF oft[e].rc = 1 THEN [oft EXCEPT ![e] = FreedFile]
                  ELSE [oft EXCEPT ![e].rc = @ - 1],
          err |-> "OK"]

\* a file_table_init that opens the third descriptor for reading and writing
file_table_init_rdwr(oft) ==
    LET r1 == file_open(EmptyFdt, oft, FirstClosedFd(EmptyFdt.e), "con:", O_RDONLY)
        r2 == file_open(r1.fdt, r1.oft, FirstClosedFd(r1.fdt.e), "con:", O_WRONLY)
        r3 == file_open(r2.fdt, r2.oft, FirstClosedFd(r2.fdt.e), "con:", O_RDWR)
    IN  IF r1.err # "OK" THEN [fdt |-> FreedFdt, oft |-> r1.oft, err |-> r1.err, fds |-> <<r1.fd>>]
        ELSE IF r2.err # "OK" THEN [fdt |-> FreedFdt, oft |-> r2.oft, err |-> r2.err, fds |-> <<r1.fd, r2.fd>>]
        ELSE IF r3.err # "OK" THEN [fdt |-> FreedFdt, oft |-> r3.oft, err |-> r3.err, fds |-> <<r1.fd, r2.fd, r3.fd>>]
        ELSE [fdt |-> r3.fdt, oft |-> r3.oft, err |-> "OK", fds |-> <<r1.fd, r2.fd, r3.fd>>]

\* file_table_init: a new table, every entry FILE_CLOSED, then the three opens of
\* the console; a failing open frees the new table and leaves curproc->fd_t
\* pointing to it
file_table_init(oft) ==
    LET r1 == file_open(EmptyFdt, oft, FirstClosedFd(EmptyFdt.e), "con:", O_RDONLY)
        r2 == file_open(r1.fdt, r1.oft, FirstClosedFd(r1.fdt.e), "con:", O_WRONLY)
        r3 == file_open(r2.fdt, r2.oft, FirstClosedFd(r2.fdt.e), "con:", O_WRONLY)
    IN  IF r1.err # "OK" THEN [fdt |-> FreedFdt, oft |-> r1.oft, err |-> r1.err, fds |-> <<r1.fd>>]
        ELSE IF r2.err # "OK" THEN [fdt |-> FreedFdt, oft |-> r2.oft, err |-> r2.err, fds |-> <<r1.fd, r2.fd>>]
        ELSE IF r3.err # "OK" THEN [fdt |-> FreedFdt, oft |-> r3.oft, err |-> r3.err, fds |-> <<r1.fd, r2.fd, r3.fd>>]
        ELSE [fdt |-> r3.fdt, oft |-> r3.oft, err |-> "OK", fds |-> <<r1.fd, r2.fd, r3.fd>>]

\* file_table_init: the lock it creates for the new table (a table it freed again
\* has none)
fdt_set_lock(fdt, l) == IF fdt.valid THEN [fdt EXCEPT !.lk = l] ELSE fdt

\* file_table_destroy: file_close on every open descriptor, in order
RECURSIVE file_table_destroy(_, _, _)
file_table_destroy(fdt, oft, fd) ==
    IF fd = OPEN_MAX THEN oft
    ELSE IF fdt.e[fd] = FILE_CLOSED THEN file_table_destroy(fdt, oft, fd + 1)
    ELSE file_table_destroy(fdt, file_close(fdt, oft, fd, fdt.e[fd]).oft, fd + 1)

\* the descriptors of a table that hold the address of a freed open_file
StaleFds(fdt, oft) == {fd \in Fds : fdt.e[fd] # FILE_CLOSED /\ oft[fdt.e[fd]].st = "freed"}

\* a value stored into an int (struct open_file's am, rc and os are int)
to_int(x) == ((x + 2^(IntBits - 1)) % (2^IntBits)) - 2^(IntBits - 1)

\* the vnode is a regular file of the file system; "con:" is the console device
VOP_ISSEEKABLE(vn) == vn \in Files

\* VOP_READ on a regular file: the bytes it transfers from offset off when the
\* caller asks for n
VOP_READ(data, off, n) ==
    IF off < 0 \/ off >= Len(data) THEN 0
    ELSE IF Len(data) - off < n THEN Len(data) - off ELSE n

\* VOP_WRITE on a regular file: n bytes of value b stored from offset off on, the
\* file growing (zero-filled) as far as needed
VOP_WRITE(data, off, n, b) ==
    [i \in 1..(IF Len(data) > off + n THEN Len(data) ELSE off + n) |->
        IF i > off /\ i <= off + n THEN b
        ELSE IF i <= Len(data) THEN data[i] ELSE 0]

\* tests that answer EINVAL for a closed descriptor
file_rw_check_einval(fdt, oft, fd, denied) ==
    LET of_entry == fdt.e[fd] IN
    IF of_entry < 0 \/ of_entry > OPEN_MAX THEN "EINVAL"
    ELSE IF oft[of_entry].st = "null" THEN "EBADF"
    ELSE IF oft[of_entry].st = "freed" THEN "FREED"
    ELSE IF oft[of_entry].am = denied THEN "EBADF"
    ELSE "OK"

\* file_read, file_write: the tests between lock_acquire(fdt_l) and uio_uinit,
\* denied being the access mode that rules the transfer out
file_rw_check(fdt, oft, fd, denied) ==
    LET of_entry == fdt.e[fd] IN
    IF of_entry < 0 \/ of_entry > OPEN_MAX THEN "EBADF"
    ELSE IF oft[of_entry].st = "null" THEN "EBADF"
    ELSE IF oft[of_entry].st = "freed" THEN "FREED"
    ELSE IF oft[of_entry].am = denied THEN "EBADF"
    ELSE "OK"

file_read_check(fdt, oft, fd) == file_rw_check(fdt, oft, fd, O_WRONLY)
file_write_check(fdt, oft, fd) == file_rw_check(fdt, oft, fd, O_RDONLY)

\* an lseek that does not put the old offset back when the new one is negative
sys_lseek_norestore(of, pos, whence, size) ==
    LET os == IF whence = SEEK_SET THEN to_int(pos)
              ELSE IF whence = SEEK_CUR THEN to_int(of.os + pos)
              ELSE to_int(pos + size)
    IN  IF os < 0
        THEN [os |-> os, err |-> "EINVAL", npos |-> -1]
        ELSE [os |-> os, err |-> "OK", npos |-> os]

\* sys_lseek from "determine new position" on: of is the open file, size what
\* VOP_STAT reports
sys_lseek(of, pos, whence, size) ==
    LET og_pos == of.os
        os == IF whence = SEEK_SET THEN to_int(pos)
              ELSE IF whence = SEEK_CUR THEN to_int(of.os + pos)
              ELSE to_int(pos + size)
    IN  IF os < 0
        THEN [os |-> og_pos, err |-> "EINVAL", npos |-> -1]
        ELSE [os |-> os, err |-> "OK", npos |-> os]

\* ------------------------------------------- argument vectors (execv.c)
\* A string is the sequence of its bytes without the terminating 0.
\* copyinstr(src, dest, len, &actual): at most len bytes are stored, the
\* terminator included; a string that does not fit is cut off at len bytes
copyinstr(src, len) ==
    IF Len(src) + 1 <= len
    THEN [err |-> "OK", bytes |-> Append(src, 0), actual |-> Len(src) + 1]
    ELSE [err |-> "ENAMETOOLONG", bytes |-> SubSeq(src, 1, len), actual |-> 0]

\* the memory from argv[0] on: kmalloc'ed ARG_MAX bytes and what lies behind
\* them on the heap; -1 is a byte that sys_execv has not stored
KbufIdx == 0..(2 * ARG_MAX - 1)
EmptyKbuf == [j \in KbufIdx |-> -1]

\* bytes stored from &mem[at] on
store(mem, at, bytes) ==
    [j \in DOMAIN mem |-> IF j >= at /\ j < at + Len(bytes) THEN bytes[j - at + 1] ELSE mem[j]]

\* sys_execv, "copy in arg vectors from userland": string i goes to
\* &argv[argv_index] with the bound ARG_MAX - argv_length, argv_length being the
\* length of the string copied before it; the total is tested after the copy
RECURSIVE execv_copyargs(_, _, _, _, _, _)
execv_copyargs(args, i, argv, argv_index, argv_length, argvp) ==
    IF i > Len(args)
    THEN [err |-> "OK", argv |-> argv, argvp |-> argvp]
    ELSE LET c == copyinstr(args[i], ARG_MAX - argv_length)
             buf == store(argv, argv_index, c.bytes)
         IN  IF c.err # "OK" THEN [err |-> c.err, argv |-> buf, argvp |-> argvp]
             ELSE IF argv_index + c.actual - 1 >= ARG_MAX
             THEN [err |-> "E2BIG", argv |-> buf, argvp |-> argvp]
             ELSE execv_copyargs(args, i + 1, buf, argv_index + c.actual, c.actual,
                                 Append(argvp, argv_index))

\* sys_execv from "copy in program name" to the end of the copy loop: the
\* program name goes to &argv[0], where the first argument overwrites it
execv_copyin(prog, args) ==
    LET c0 == copyinstr(prog, PATH_MAX)
        buf0 == store(EmptyKbuf, 0, c0.bytes)
    IN  IF c0.err # "OK" THEN [err |-> c0.err, argv |-> buf0, argvp |-> <<>>]
        ELSE IF c0.actual = 0 THEN [err |-> "ENOEXEC", argv |-> buf0, argvp |-> <<>>]
        ELSE execv_copyargs(args, 1, buf0, 0, c0.actual, <<>>)

\* strlen of the string at &argv[at]
RECURSIVE strlen(_, _)
strlen(argv, at) ==
    IF at \notin DOMAIN argv \/ argv[at] = 0 THEN 0 ELSE 1 + strlen(argv, at + 1)

\* the user stack: its highest byte is at StackTop - 1; -1 is a byte that
\* sys_execv has not stored
StackTop == 4 * StackWords
EmptyStack == [a \in 0..(StackTop - 1) |-> -1]

\* the four bytes of a 32-bit word, highest first (the machine is big-endian)
word(v) == <<(v \div 16777216) % 256, (v \div 65536) % 256, (v \div 256) % 256, v % 256>>

\* sys_execv, "copy arguments to new process' stack": strings argc-1 down to 0
RECURSIVE execv_push_strings(_, _, _, _, _, _)
execv_push_strings(argv, argvp, i, stackptr, mem, userland_argvp) ==
    IF i = 0
    THEN [stackptr |-> stackptr, mem |-> mem, userland_argvp |-> userland_argvp]
    ELSE LET tmp == strlen(argv, argvp[i]) + 1
             sp == stackptr - tmp
         IN  execv_push_strings(argv, argvp, i - 1, sp,
                                store(mem, sp, [j \in 1..tmp |-> argv[argvp[i] + j - 1]]),
                                [userland_argvp EXCEPT ![i] = sp])

\* sys_execv, "place userland pointers to arguments on new process' stack"
RECURSIVE execv_push_pointers(_, _, _, _)
execv_push_pointers(userland_argvp, i, stackptr, mem) ==
    IF i = 0
    THEN [stackptr |-> stackptr, mem |-> mem]
    ELSE execv_push_pointers(userland_argvp, i - 1, stackptr - 4,
                             store(mem, stackptr, word(userland_argvp[i])))

\* a sys_execv that passes the stack pointer it had when it took argv_ptr
execv_last_step_none(stackptr) == stackptr

\* sys_execv: "stackptr -= sizeof(vaddr_t)" after argv_ptr has been taken
execv_last_step(stackptr) == stackptr - 4

\* sys_execv from "place null as the last thing on the stack" to
\* enter_new_process: what it passes, and the stack it has built
execv_stack(argv, argvp, stackptr) ==
    LET argc == Len(argvp)
        sp1 == stackptr - 4
        s == execv_push_strings(argv, argvp, argc, sp1, store(EmptyStack, sp1, word(0)),
                                [i \in 1..argc |-> 0])
        sp2 == s.stackptr - 4
        sp3 == IF sp2 % 4 # 0 THEN sp2 - (sp2 % 4) ELSE sp2
        q == execv_push_pointers(s.userland_argvp, argc, sp3 - 4, store(s.mem, sp3, word(0)))
    IN  [argc |-> argc, argv_ptr |-> q.stackptr + 4, stackptr |-> execv_last_step(q.stackptr),
         mem |-> q.mem]

\* ------------------------------------------------------------ the system
\* buf is what a read has put into the caller's buffer
Last(op, arg, err, val) == [op |-> op, arg |-> arg, err |-> err, val |-> val, buf |-> <<>>]

\* nothing has been lost on the kernel heap
NoLeak == [tf_child |-> 0, as_child |-> 0, new_proc |-> 0, fd_t |-> 0]

\* no sys_execv is at work on an argument vector
NoExec == [phase |-> "none"]

\* no read or write is under way
NoIo == [op |-> "none", of |-> -1, os |-> 0, n |-> 0]

\* After boot: pidtable_init has run, the first user process exists with the
\* first PID (its parent is the kernel, PID_BOOT) and file_table_init has opened
\* its three console descriptors.
Init ==
    /\ \E t0 \in pidtable_init : pid_table = pid_create(t0, PID_BOOT).tab
    /\ of_t = file_table_init([i \in Fds |-> NullFile]).oft
    /\ oft_l = NoProc
    /\ fd_t = [p \in Procs |-> IF p = 1
                               THEN fdt_set_lock(file_table_init([i \in Fds |-> NullFile]).fdt, 1)
                               ELSE FreedFdt]
    /\ pstate = [p \in Procs |-> IF p = 1 THEN "run" ELSE "none"]
    /\ p_pid = [p \in Procs |-> IF p = 1 THEN PID_MIN ELSE 0]
    /\ wtarget = [p \in Procs |-> 0]
    /\ exit_log = [i \in Pids |-> -1]
    /\ reaped = {}
    /\ panicked = FALSE
    /\ vn_data = [f \in Files |-> <<>>]
    /\ io = [p \in Procs |-> NoIo]
    /\ fdt_l = [l \in LockIds |-> NoProc]
    /\ kheap = NoLeak
    /\ ex = NoExec
    /\ last = Last("boot", 0, "OK", 0)

Running(p) == ~panicked /\ pstate[p] = "run"

\* lock_create in file_table_init called by p: a lock that no other process's
\* descriptor table points to
lock_create(p) ==
    Min({l \in LockIds \ {0} : \A q \in Procs \ {p} : pstate[q] = "none" \/ fd_t[q].lk # l})

\* a lock_acquire that does not wait for the holder
lock_ignored(holder) == TRUE

\* lock_acquire can proceed: the lock has no holder
lock_free(holder) == holder = NoProc

\* lock_acquire(curproc->fd_t->fdt_l) can proceed
fdt_l_free(p) == lock_free(fdt_l[fd_t[p].lk])

\* a failing call that returns without releasing the open-file-table lock
Fails_holding(op, arg, err) ==
    /\ last' = Last(op, arg, err, -1)
    /\ oft_l' = 1
    /\ UNCHANGED <<kheap, ex, pid_table, of_t, fd_t, pstate, p_pid, wtarget, exit_log, reaped, panicked, vn_data, io, fdt_l>>

\* a call with argument arg that returns err and changes nothing
Fails(op, arg, err) ==
    /\ last' = Last(op, arg, err, -1)
    /\ UNCHANGED <<kheap, ex, pid_table, of_t, oft_l, fd_t, pstate, p_pid, wtarget, exit_log, reaped, panicked, vn_data, io, fdt_l>>

\* a fault in kernel mode
Panic(op) ==
    /\ panicked' = TRUE
    /\ last' = Last(op, 0, "PANIC", -1)
    /\ UNCHANGED <<kheap, ex, pid_table, of_t, oft_l, fd_t, pstate, p_pid, wtarget, exit_log, reaped, vn_data, io, fdt_l>>

\* a file call of a process whose descriptor table has been freed
Stale(op, p, err) ==
    /\ ~fd_t[p].valid
    /\ Fails(op, 0, err) \/ Panic(op)

\* sys_open -> file_open
Open(p, vn, flags) ==
    /\ Running(p)
    /\ \/ Fails("open", 0, "ENOMEM")
       \/ /\ fd_t[p].valid
          /\ fdt_l_free(p)
          /\ oft_l = NoProc
          /\ LET r == file_open(fd_t[p], of_t, FirstClosedFd(fd_t[p].e), vn, flags) IN
             /\ fd_t' = [fd_t EXCEPT ![p] = r.fdt]
             /\ of_t' = r.oft
             /\ last' = Last("open", 0, r.err, r.fd)
          /\ UNCHANGED <<kheap, ex, pid_table, oft_l, pstate, p_pid, wtarget, exit_log, reaped, panicked, vn_data, io, fdt_l>>
       \/ Stale("open", p, "EMFILE")

\* sys_close -> file_close
Close(p, fd) ==
    /\ Running(p)
    /\ \/ (fd < 0 \/ fd >= OPEN_MAX) /\ Fails("close", 0, "EBADF")
       \/ /\ fd \in Fds
          /\ fd_t[p].valid
          /\ fdt_l_free(p)
          /\ LET e == fd_t[p].e[fd] IN
                \/ e < 0 /\ Fails("close", 0, "EBADF")
                \/ /\ e >= 0
                   /\ oft_l = NoProc
                   /\ LET r == file_close(fd_t[p], of_t, fd, e) IN
                      /\ fd_t' = [fd_t EXCEPT ![p] = r.fdt]
                      /\ of_t' = r.oft
                      /\ last' = Last("close", fd, r.err, e)
                   /\ UNCHANGED <<kheap, ex, pid_table, oft_l, pstate, p_pid, wtarget, exit_log, reaped, panicked, vn_data, io, fdt_l>>
                \/ /\ e >= 0
                   /\ oft_l = NoProc
                   /\ of_t[e].st = "freed"
                   /\ Panic("close")
       \/ fd \in Fds /\ Stale("close", p, "EBADF")

\* a dup2 that leaves the reference count alone
dup2_nobump(oft, old_of) == oft

\* sys_dup2: the reference count of oldfd's open file after "of->rc = of->rc + 1"
\* (a store into a freed open_file is lost)
dup2_bump(oft, old_of) ==
    IF oft[old_of].st = "live" THEN [oft EXCEPT ![old_of].rc = @ + 1] ELSE oft

\* sys_dup2.  With newfd open it goes on to file_close(newfd) while it holds
\* oft_l (pstate "dup2", continued by Dup2Close).
Dup2(p, oldfd, newfd) ==
    /\ Running(p)
    /\ \/ /\ (oldfd < 0 \/ oldfd >= OPEN_MAX \/ newfd < 0 \/ newfd >= OPEN_MAX)
          /\ Fails("dup2", 0, "EBADF")
       \/ /\ oldfd \in Fds /\ newfd = oldfd
          /\ last' = Last("dup2", 0, "OK", newfd)
          /\ UNCHANGED <<kheap, ex, pid_table, of_t, oft_l, fd_t, pstate, p_pid, wtarget, exit_log, reaped, panicked, vn_data, io, fdt_l>>
       \/ /\ oldfd \in Fds /\ newfd \in Fds /\ newfd # oldfd
          /\ fd_t[p].valid
          /\ oft_l = NoProc
          /\ LET old_of == fd_t[p].e[oldfd]
                 new_of == fd_t[p].e[newfd]
             IN \/ old_of = FILE_CLOSED /\ Fails("dup2", 0, "EBADF")
                \/ /\ old_of # FILE_CLOSED
                   /\ of_t[old_of].st = "null"
                   /\ Panic("dup2")
                \/ /\ old_of # FILE_CLOSED
                   /\ of_t[old_of].st # "null"
                   /\ of_t[old_of].rc < MaxRc
                   /\ of_t' = dup2_bump(of_t, old_of)
                   /\ IF new_of # FILE_CLOSED
                      THEN /\ oft_l' = p
                           /\ pstate' = [pstate EXCEPT ![p] = "dup2"]
                           /\ last' = Last("dup2", newfd, "CLOSING", -1)
                           /\ UNCHANGED <<fd_t, fdt_l, panicked>>
                      ELSE /\ fd_t' = [fd_t EXCEPT ![p] = FdWrite(fd_t[p], newfd, old_of)]
                           /\ last' = Last("dup2", oldfd, "OK", newfd)
                           /\ UNCHANGED <<oft_l, pstate, fdt_l, panicked>>
                   /\ UNCHANGED <<kheap, ex, pid_table, p_pid, wtarget, exit_log, reaped, vn_data, io>>
       \/ oldfd \in Fds /\ newfd \in Fds /\ newfd # oldfd /\ Stale("dup2", p, "EBADF")

\* file_close(newfd) called by sys_dup2, which holds oft_l: file_close asks only
\* whether the caller holds the descriptor-table lock, takes that one and then
\* calls lock_acquire on oft_l, which its own thread holds: the thread sleeps for
\* ever, or lock_acquire asserts that the caller is not the holder and the kernel
\* panics.
Dup2Close(p) ==
    /\ ~panicked
    /\ pstate[p] = "dup2"
    /\ fdt_l_free(p)
    /\ fdt_l' = [fdt_l EXCEPT ![fd_t[p].lk] = p]
    /\ \/ /\ pstate' = [pstate EXCEPT ![p] = "hung"]
          /\ last' = Last("dup2", 0, "HANG", -1)
          /\ UNCHANGED panicked
       \/ /\ panicked' = TRUE
          /\ last' = Last("dup2", 0, "PANIC", -1)
          /\ UNCHANGED pstate
    /\ UNCHANGED <<kheap, ex, pid_table, of_t, oft_l, fd_t, p_pid, wtarget, exit_log, reaped, vn_data, io>>

\* the largest value of an int
INT_MAX == 2^(IntBits - 1) - 1

\* the transfers the model follows: those that end at MaxOff or below, and any
\* transfer on a regular file that is INT_MAX bytes long or longer
Followed(of, n) ==
    \/ of.os + n <= MaxOff
    \/ VOP_ISSEEKABLE(of.vn) /\ Len(vn_data[of.vn]) >= INT_MAX

\* file_read, file_write: both locks are held, the uio is set up at of->os and the
\* VOP call, which may block, is under way
IoStart(p, op, of_entry, n) ==
    /\ io' = [io EXCEPT ![p] = [op |-> op, of |-> of_entry, os |-> of_t[of_entry].os, n |-> n]]
    /\ pstate' = [pstate EXCEPT ![p] = "io"]
    /\ fdt_l' = [fdt_l EXCEPT ![fd_t[p].lk] = p]
    /\ oft_l' = p
    /\ last' = Last(op, 0, "VOP", -1)
    /\ UNCHANGED <<kheap, ex, pid_table, of_t, fd_t, p_pid, wtarget, exit_log, reaped, panicked, vn_data>>

\* file_read, file_write after the VOP call: on an error nothing is stored; else
\* "*sz = uio_offset - of->os; of->os = uio_offset" with data the file's new
\* bytes; then both locks are released
IoFinish(p, op, err, uio_offset, data) ==
    LET of_entry == io[p].of IN
    /\ IF err = "OK"
       THEN /\ of_t' = [of_t EXCEPT ![of_entry].os = to_int(uio_offset)]
            /\ vn_data' = data
            /\ last' = [Last(op, 0, "OK", uio_offset - of_t[of_entry].os) EXCEPT
                            !.buf = IF op = "read" /\ VOP_ISSEEKABLE(of_t[of_entry].vn)
                                    THEN SubSeq(vn_data[of_t[of_entry].vn], io[p].os + 1, uio_offset)
                                    ELSE <<>>]
       ELSE /\ last' = Last(op, 0, err, -1)
            /\ UNCHANGED <<of_t, vn_data>>
    /\ io' = [io EXCEPT ![p] = NoIo]
    /\ pstate' = [pstate EXCEPT ![p] = "run"]
    /\ fdt_l' = [fdt_l EXCEPT ![fd_t[p].lk] = NoProc]
    /\ oft_l' = NoProc
    /\ UNCHANGED <<kheap, ex, pid_table, fd_t, p_pid, wtarget, exit_log, reaped, panicked>>

\* sys_read -> file_read up to the call of VOP_READ
Read(p, fd, n) ==
    /\ Running(p)
    /\ \/ (fd < 0 \/ fd >= OPEN_MAX) /\ Fails("read", 0, "EBADF")
       \/ /\ fd \in Fds
          /\ fd_t[p].valid
          /\ fdt_l_free(p)
          /\ LET c == file_read_check(fd_t[p], of_t, fd) IN
                \/ fd_t[p].e[fd] < 0 /\ Fails("read", 0, c)
                \/ /\ fd_t[p].e[fd] >= 0
                   /\ lock_free(oft_l)
                   /\ \/ c = "EBADF" /\ Fails("read", 0, c)
                      \/ c = "FREED" /\ (Fails("read", 0, "EBADF") \/ Panic("read"))
                      \/ /\ c = "OK"
                         /\ Followed(of_t[fd_t[p].e[fd]], n)
                         /\ IoStart(p, "read", fd_t[p].e[fd], n)
       \/ fd \in Fds /\ Stale("read", p, "EBADF")

\* file_read from the return of VOP_READ on: the console hands over 1..n bytes, a
\* regular file what it holds from the uio's offset on; a negative offset makes
\* the VFS return an error
ReadDone(p) ==
    /\ ~panicked
    /\ pstate[p] = "io"
    /\ io[p].op = "read"
    /\ LET of == of_t[io[p].of] IN
          \/ of.st # "live" /\ Panic("read")
          \/ of.st = "live" /\ IoFinish(p, "read", "EIO", 0, vn_data)
          \/ /\ of.st = "live"
             /\ io[p].os >= 0
             /\ \E k \in 0..io[p].n :
                   /\ IF VOP_ISSEEKABLE(of.vn)
                      THEN k = VOP_READ(vn_data[of.vn], io[p].os, io[p].n)
                      ELSE k >= 1
                   /\ IoFinish(p, "read", "OK", io[p].os + k, vn_data)

\* sys_write -> file_write up to the call of VOP_WRITE
Write(p, fd, n) ==
    /\ Running(p)
    /\ \/ (fd < 0 \/ fd >= OPEN_MAX) /\ Fails("write", 0, "EBADF")
       \/ /\ fd \in Fds
          /\ fd_t[p].valid
          /\ fdt_l_free(p)
          /\ LET c == file_write_check(fd_t[p], of_t, fd) IN
                \/ fd_t[p].e[fd] < 0 /\ Fails("write", 0, c)
                \/ /\ fd_t[p].e[fd] >= 0
                   /\ lock_free(oft_l)
                   /\ \/ c = "EBADF" /\ Fails("write", 0, c)
                      \/ c = "FREED" /\ (Fails("write", 0, "EBADF") \/ Panic("write"))
                      \/ /\ c = "OK"
                         /\ Followed(of_t[fd_t[p].e[fd]], n)
                         /\ IoStart(p, "write", fd_t[p].e[fd], n)
       \/ fd \in Fds /\ Stale("write", p, "EBADF")

\* file_write from the return of VOP_WRITE on: the n bytes (each the writer's
\* number) are in the file from the uio's offset on; the console keeps nothing
WriteDone(p) ==
    /\ ~panicked
    /\ pstate[p] = "io"
    /\ io[p].op = "write"
    /\ LET of == of_t[io[p].of] IN
          \/ of.st # "live" /\ Panic("write")
          \/ of.st = "live" /\ IoFinish(p, "write", "EIO", 0, vn_data)
          \/ /\ of.st = "live"
             /\ io[p].os >= 0
             /\ IoFinish(p, "write", "OK", io[p].os + io[p].n,
                         IF VOP_ISSEEKABLE(of.vn)
                         THEN [vn_data EXCEPT ![of.vn] = VOP_WRITE(@, io[p].os, io[p].n, p)]
                         ELSE vn_data)

\* sys_lseek: it reads the descriptor entry without the descriptor-table lock and
\* works on the open file under oft_l; VOP_STAT may fail
Lseek(p, fd, pos, whence) ==
    /\ Running(p)
    /\ \/ (fd < 0 \/ fd >= OPEN_MAX) /\ Fails("lseek", 0, "EBADF")
       \/ /\ fd \in Fds
          /\ whence \notin {SEEK_SET, SEEK_CUR, SEEK_END}
          /\ Fails("lseek", 0, "EINVAL")
       \/ /\ fd \in Fds
          /\ whence \in {SEEK_SET, SEEK_CUR, SEEK_END}
          /\ fd_t[p].valid
          /\ LET of_index == fd_t[p].e[fd] IN
                \/ of_index = FILE_CLOSED /\ Fails("lseek", 0, "EBADF")
                \/ /\ of_index # FILE_CLOSED
                   /\ lock_free(oft_l)
                   /\ LET of == of_t[of_index] IN
                         \/ of.st = "null" /\ Panic("lseek")
                         \/ of.st = "freed" /\ (Fails("lseek", 0, "ESPIPE") \/ Panic("lseek"))
                         \/ of.st = "live" /\ ~VOP_ISSEEKABLE(of.vn) /\ Fails("lseek", 0, "ESPIPE")
                         \/ /\ of.st = "live" /\ VOP_ISSEEKABLE(of.vn)
                            /\ whence = SEEK_END
                            /\ Fails("lseek", 0, "EIO")
                         \/ /\ of.st = "live" /\ VOP_ISSEEKABLE(of.vn)
                            /\ LET r == sys_lseek(of, pos, whence, Len(vn_data[of.vn])) IN
                               /\ of_t' = [of_t EXCEPT ![of_index].os = r.os]
                               /\ last' = Last("lseek", 0, r.err, r.npos)
                            /\ UNCHANGED <<kheap, ex, pid_table, oft_l, fd_t, pstate, p_pid, wtarget, exit_log,
                                           reaped, panicked, vn_data, io, fdt_l>>
       \/ /\ fd \in Fds
          /\ whence \in {SEEK_SET, SEEK_CUR, SEEK_END}
          /\ Stale("lseek", p, "EBADF")

\* sys_execv: it fails before it touches the descriptors, or it runs
\* file_table_init, which replaces curproc->fd_t without closing the old table's
\* descriptors, and then starts the program or fails on a later step.
Exec(p) ==
    /\ Running(p)
    /\ \/ Fails("execv", 0, "EFAULT")
       \/ /\ oft_l = NoProc
          /\ LET r == file_table_init(of_t) IN
             /\ fd_t' = [fd_t EXCEPT ![p] = fdt_set_lock(r.fdt, lock_create(p))]
             /\ of_t' = r.oft
             /\ \E late \in {"OK", "ENOENT"} :
                   last' = Last("execv", 0, IF r.err = "OK" THEN late ELSE r.err, -1)
          /\ UNCHANGED <<kheap, ex, pid_table, oft_l, pstate, p_pid, wtarget, exit_log, reaped, panicked, vn_data, io, fdt_l>>

\* a fork whose child starts with every descriptor closed
sys_fork_fdt_closed(parent_fdt) == [parent_fdt EXCEPT !.e = [i \in Fds |-> FILE_CLOSED]]

\* sys_fork: the child's descriptor table is a copy of the parent's structure
sys_fork_fdt(parent_fdt) == parent_fdt

\* sys_fork: what it does to the open-file table (it does not touch it)
sys_fork_oft(oft, child_fdt) == oft

\* the process object proc_create_runprogram allocates
FreeProc == Min({c \in Procs : pstate[c] = "none"})

\* the steps of sys_fork that can fail: the kmalloc of the child's trapframe,
\* as_copy, proc_create_runprogram, the kmalloc of the child's descriptor table,
\* thread_fork; "none" when all succeed
ForkFaults == {"none", "tf_child", "as_child", "new_proc", "fd_t", "thread_fork"}

\* sys_fork: what a return on a failing step leaves on the heap with nothing
\* pointing to it (no failure path frees anything)
sys_fork_lost(kh, fault) ==
    IF fault = "as_child" THEN [kh EXCEPT !.tf_child = @ + 1]
    ELSE IF fault = "new_proc" THEN [kh EXCEPT !.tf_child = @ + 1, !.as_child = @ + 1]
    ELSE IF fault = "thread_fork"
    THEN [kh EXCEPT !.tf_child = @ + 1, !.as_child = @ + 1, !.new_proc = @ + 1, !.fd_t = @ + 1]
    ELSE kh

\* sys_fork: proc_create_runprogram creates the process with a new PID whose
\* parent is the caller; the descriptor table is copied; the child starts to run.
\* A step that fails makes sys_fork return at once; the kmalloc of the descriptor
\* table is not tested, so its failure is a store through a null pointer.
sys_fork(p, fault) ==
    /\ Running(p)
    /\ \/ fault = "tf_child" /\ Fails("fork", 0, "ENOMEM")
       \/ /\ fault \in {"as_child", "new_proc"}
          /\ kheap.tf_child < MaxLeak
          /\ kheap' = sys_fork_lost(kheap, fault)
          /\ last' = Last("fork", 0, "ENOMEM", -1)
          /\ UNCHANGED <<pid_table, of_t, oft_l, fd_t, pstate, p_pid, wtarget, exit_log, reaped,
                         panicked, vn_data, io, fdt_l, ex>>
       \/ /\ fault \in {"fd_t", "thread_fork"}
          /\ pid_next(pid_table) # -1
          /\ kheap.tf_child < MaxLeak
          /\ LET r == pid_create(pid_table, p_pid[p]) IN
                /\ pid_table' = r.tab
                /\ exit_log' = [exit_log EXCEPT ![r.pid] = -1]
          /\ kheap' = sys_fork_lost(kheap, fault)
          /\ IF fault = "fd_t"
             THEN panicked' = TRUE /\ last' = Last("fork", 0, "PANIC", -1)
             ELSE UNCHANGED panicked /\ last' = Last("fork", 0, "ENOMEM", -1)
          /\ UNCHANGED <<of_t, oft_l, fd_t, pstate, p_pid, wtarget, reaped, vn_data, io, fdt_l, ex>>
       \/ /\ fault = "none"
          /\ \E c \in Procs : pstate[c] = "none"
          /\ pid_next(pid_table) # -1
          /\ LET c == FreeProc
                 r == pid_create(pid_table, p_pid[p])
             IN /\ pid_table' = r.tab
                /\ exit_log' = [exit_log EXCEPT ![r.pid] = -1]
                /\ fd_t' = [fd_t EXCEPT ![c] = sys_fork_fdt(fd_t[p])]
                /\ of_t' = sys_fork_oft(of_t, fd_t[p])
                /\ pstate' = [pstate EXCEPT ![c] = "run"]
                /\ p_pid' = [p_pid EXCEPT ![c] = r.pid]
                /\ last' = Last("fork", c, "OK", r.pid)
          /\ UNCHANGED <<kheap, ex, oft_l, wtarget, reaped, panicked, vn_data, io, fdt_l>>

\* sys_fork where memory runs out, if at all, at the first kmalloc
Fork(p) == \E fault \in {"none", "tf_child"} : sys_fork(p, fault)

\* sys__exit -> pid_exit, the part under pt_lock
Exit(p, status) ==
    /\ Running(p)
    /\ pid_table[p_pid[p]].st = "used"
    /\ pid_table' = pid_exit_mark(pid_table, p_pid[p], status)
    /\ exit_log' = [exit_log EXCEPT ![p_pid[p]] = status]
    /\ pstate' = [cv_broadcast(pstate, wtarget, p_pid[p]) EXCEPT ![p] = "teardown"]
    /\ last' = Last("exit", p_pid[p], "OK", status)
    /\ UNCHANGED <<kheap, ex, of_t, oft_l, fd_t, p_pid, wtarget, reaped, panicked, vn_data, io, fdt_l>>

\* pid_exit after pt_lock is released: file_table_destroy, proc_destroy, thread_exit
Teardown(p) ==
    /\ ~panicked
    /\ pstate[p] = "teardown"
    /\ \/ /\ fd_t[p].valid
          /\ oft_l = NoProc
          /\ of_t' = file_table_destroy(fd_t[p], of_t, 0)
          /\ fd_t' = [fd_t EXCEPT ![p] = FreedFdt]
          /\ pstate' = [pstate EXCEPT ![p] = "none"]
          /\ p_pid' = [p_pid EXCEPT ![p] = 0]
          /\ last' = Last("teardown", 0, "OK", 0)
          /\ UNCHANGED <<kheap, ex, pid_table, oft_l, wtarget, exit_log, reaped, panicked, vn_data, io, fdt_l>>
       \/ /\ ~fd_t[p].valid
          /\ pstate' = [pstate EXCEPT ![p] = "none"]
          /\ p_pid' = [p_pid EXCEPT ![p] = 0]
          /\ last' = Last("teardown", 0, "OK", 0)
          /\ UNCHANGED <<kheap, ex, pid_table, of_t, fd_t, oft_l, wtarget, exit_log, reaped, panicked, vn_data, io, fdt_l>>
       \/ /\ ~fd_t[p].valid \/ (fd_t[p].valid /\ oft_l = NoProc /\ StaleFds(fd_t[p], of_t) # {})
          /\ Panic("teardown")

\* pid_wait from "deem the pid invalid" on: the entry is reaped; sys_waitpid then
\* copies the status out through the user pointer, which may be bad
Reap(op, q, pid) ==
    /\ pid_table[pid].st = "used"
    /\ LET r == pid_wait_reap(pid_table, pid_table[pid]) IN
       /\ pid_table' = r.tab
       /\ \E sptr \in {"null", "ok", "bad"} :
             last' = Last(op, pid, IF sptr = "bad" THEN "EFAULT" ELSE "OK", r.status)
    /\ pstate' = [pstate EXCEPT ![q] = "run"]
    /\ wtarget' = [wtarget EXCEPT ![q] = 0]
    /\ reaped' = reaped \cup {pid}
    /\ UNCHANGED <<kheap, ex, of_t, oft_l, fd_t, p_pid, exit_log, panicked, vn_data, io, fdt_l>>

FdArgs == ((-1)..MaxFdArg) \cup {OPEN_MAX}
WaitArgs == (PID_MIN - 1)..(PID_MAX + 1)
WaitOptions == 0..3

\* sys_waitpid -> pid_wait up to the cv_wait
WaitCall(q, pid, options) ==
    /\ Running(q)
    /\ LET a == sys_waitpid_args(pid, options) IN
       IF a # "OK" THEN Fails("waitpid", pid, a)
       ELSE IF pid_table[pid].st = "garbage"
       THEN Fails("waitpid", pid, "ECHILD") \/ Panic("waitpid")
       ELSE LET c == pid_wait_check(pid_table[pid], p_pid[q]) IN
            IF c = "WAIT"
            THEN /\ pstate' = [pstate EXCEPT ![q] = "sleep"]
                 /\ wtarget' = [wtarget EXCEPT ![q] = pid]
                 /\ last' = Last("waitpid", pid, "SLEEP", -1)
                 /\ UNCHANGED <<kheap, ex, pid_table, of_t, oft_l, fd_t, p_pid, exit_log, reaped, panicked, vn_data, io, fdt_l>>
            ELSE IF c = "REAP" THEN Reap("waitpid", q, pid)
            ELSE Fails("waitpid", pid, c)

\* pid_wait after cv_wait has returned with pt_lock held again
WaitWake(q) ==
    /\ ~panicked
    /\ pstate[q] = "woken"
    /\ Reap("wake", q, wtarget[q])

\* The descriptor calls of the first process: no fork, so it stays alone.
FdNext ==
    \/ \E p \in Procs, vn \in Files, flags \in Flags : Open(p, vn, flags)
    \/ \E p \in Procs, fd \in FdArgs : Close(p, fd)
    \/ \E p \in Procs, oldfd \in FdArgs, newfd \in FdArgs : Dup2(p, oldfd, newfd)
    \/ \E p \in Procs : Dup2Close(p)
    \/ \E p \in Procs : Exec(p)

FdSpec == Init /\ [][FdNext]_vars

\* what user programs pass to open, read, write and lseek
IoFlags == {O_RDONLY, O_WRONLY, O_RDWR, O_CREAT + O_WRONLY}
IoFdArgs == {-1, 0, 3, OPEN_MAX}
IoSizes == 1..MaxIo
SeekPos == {-1, 0, 1, 2, 2^(IntBits - 1), 2^IntBits + 1}
SeekWhence == {SEEK_SET, SEEK_CUR, SEEK_END, 3}
\* the smaller choice of the specifications that have more calls or more processes
ShareFdArgs == {3}
SharePos == {0, 1}
ShareWhence == {SEEK_SET, SEEK_CUR}

\* After boot the first process has opened a regular file that holds data: it is
\* descriptor 3.
IoInitWith(data) ==
    \E t0 \in pidtable_init, flags \in IoFlags :
       LET b == file_table_init([i \in Fds |-> NullFile])
           r == file_open(fdt_set_lock(b.fdt, 1), b.oft, FirstClosedFd(b.fdt.e), "f", flags)
       IN  /\ pid_table = pid_create(t0, PID_BOOT).tab
           /\ of_t = r.oft
           /\ oft_l = NoProc
           /\ fd_t = [p \in Procs |-> IF p = 1 THEN r.fdt ELSE FreedFdt]
           /\ pstate = [p \in Procs |-> IF p = 1 THEN "run" ELSE "none"]
           /\ p_pid = [p \in Procs |-> IF p = 1 THEN PID_MIN ELSE 0]
           /\ wtarget = [p \in Procs |-> 0]
           /\ exit_log = [i \in Pids |-> -1]
           /\ reaped = {}
           /\ panicked = FALSE
           /\ vn_data = [f \in Files |-> data]
           /\ io = [p \in Procs |-> NoIo]
           /\ fdt_l = [l \in LockIds |-> NoProc]
           /\ kheap = NoLeak
           /\ ex = NoExec
           /\ last = Last("open", 0, r.err, r.fd)

\* the regular file is new and empty
IoInit == IoInitWith(<<>>)

\* the regular file exists already and is INT_MAX bytes long
WrapInit == IoInitWith([i \in 1..INT_MAX |-> 0])

\* Reading, writing, seeking in and closing the console and the regular file.
IoNext ==
    \/ \E p \in Procs, fd \in IoFdArgs : Close(p, fd)
    \/ \E p \in Procs, fd \in IoFdArgs, n \in IoSizes : Read(p, fd, n)
    \/ \E p \in Procs : ReadDone(p)
    \/ \E p \in Procs, fd \in IoFdArgs, n \in IoSizes : Write(p, fd, n)
    \/ \E p \in Procs : WriteDone(p)
    \/ \E p \in Procs, fd \in IoFdArgs, pos \in SharePos, whence \in SeekWhence :
          Lseek(p, fd, pos, whence)

IoSpec == IoInit /\ [][IoNext]_vars

\* Opening the regular file in every access mode, reading and writing.
ModeNext ==
    \/ \E p \in Procs, vn \in Files, flags \in IoFlags : Open(p, vn, flags)
    \/ \E p \in Procs, fd \in IoFdArgs, n \in IoSizes : Read(p, fd, n)
    \/ \E p \in Procs : ReadDone(p)
    \/ \E p \in Procs, fd \in IoFdArgs, n \in IoSizes : Write(p, fd, n)
    \/ \E p \in Procs : WriteDone(p)

ModeSpec == Init /\ [][ModeNext]_vars

\* Seeking in the regular file, which writes make grow.
SeekNext ==
    \/ \E p \in Procs, fd \in IoFdArgs, n \in IoSizes : Write(p, fd, n)
    \/ \E p \in Procs : WriteDone(p)
    \/ \E p \in Procs, fd \in IoFdArgs, pos \in SeekPos, whence \in SeekWhence :
          Lseek(p, fd, pos, whence)

SeekSpec == IoInit /\ [][SeekNext]_vars

\* Duplicating descriptors of the console and of the regular file, using and
\* closing them.
DupNext ==
    \/ \E p \in Procs, oldfd \in IoFdArgs, newfd \in IoFdArgs : Dup2(p, oldfd, newfd)
    \/ \E p \in Procs : Dup2Close(p)
    \/ \E p \in Procs, fd \in IoFdArgs : Close(p, fd)
    \/ \E p \in Procs, fd \in IoFdArgs, n \in IoSizes : Read(p, fd, n)
    \/ \E p \in Procs : ReadDone(p)
    \/ \E p \in Procs, fd \in IoFdArgs, n \in IoSizes : Write(p, fd, n)
    \/ \E p \in Procs : WriteDone(p)

DupSpec == IoInit /\ [][DupNext]_vars

\* Processes fork and use the descriptor of the regular file, which they share.
ForkIoNext ==
    \/ \E p \in Procs : Fork(p)
    \/ \E p \in Procs, fd \in ShareFdArgs, n \in IoSizes : Read(p, fd, n)
    \/ \E p \in Procs : ReadDone(p)
    \/ \E p \in Procs, fd \in ShareFdArgs, n \in IoSizes : Write(p, fd, n)
    \/ \E p \in Procs : WriteDone(p)
    \/ \E p \in Procs, fd \in ShareFdArgs, pos \in SharePos, whence \in ShareWhence :
          Lseek(p, fd, pos, whence)

ForkIoSpec == IoInit /\ [][ForkIoNext]_vars

\* Forks in which any step can fail, among processes that exit and are waited for.
ForkFailNext ==
    \/ \E p \in Procs, fault \in ForkFaults : sys_fork(p, fault)
    \/ \E p \in Procs, status \in Statuses : Exit(p, status)
    \/ \E p \in Procs : Teardown(p)

ForkFailSpec == Init /\ [][ForkFailNext]_vars

\* where the process seeks in the large file: its start and just below INT_MAX
WrapPos == {0, INT_MAX - 1}

\* Reading, writing and seeking in a file whose size is the largest int.
WrapNext ==
    \/ \E p \in Procs, fd \in ShareFdArgs, n \in IoSizes : Read(p, fd, n)
    \/ \E p \in Procs : ReadDone(p)
    \/ \E p \in Procs, fd \in ShareFdArgs, n \in IoSizes : Write(p, fd, n)
    \/ \E p \in Procs : WriteDone(p)
    \/ \E p \in Procs, fd \in ShareFdArgs, pos \in WrapPos, whence \in ShareWhence :
          Lseek(p, fd, pos, whence)

WrapSpec == WrapInit /\ [][WrapNext]_vars

\* Descriptors shared through fork: processes fork, close and exit.
ShareNext ==
    \/ \E p \in Procs : Fork(p)
    \/ \E p \in Procs, fd \in FdArgs : Close(p, fd)
    \/ \E p \in Procs, status \in Statuses : Exit(p, status)
    \/ \E p \in Procs : Teardown(p)

ShareSpec == Init /\ [][ShareNext]_vars

\* The process calls: processes fork, exit and wait.
PidNext ==
    \/ \E p \in Procs : Fork(p)
    \/ \E p \in Procs, status \in Statuses : Exit(p, status)
    \/ \E p \in Procs : Teardown(p)
    \/ \E q \in Procs, pid \in WaitArgs, options \in WaitOptions : WaitCall(q, pid, options)
    \/ \E q \in Procs : WaitWake(q)

PidSpec == Init /\ [][PidNext]_vars

\* A thread that cv_broadcast has made runnable is scheduled again, and pt_lock
\* is held only for the length of a critical section, so it leaves cv_wait.
PidFairSpec == PidSpec /\ \A q \in Procs : WF_vars(WaitWake(q))

\* ---------------------------------------------- exec's argument handling
\* the strings user programs pass (bytes are 1 or 2) and the vectors of them
ArgStrings == {<<>>, <<1>>, <<2, 1>>, <<1, 2, 2>>}
ArgProgs == {<<1>>, <<2, 1>>, <<1, 2, 2>>}
ArgVectors == UNION {[1..n -> ArgStrings] : n \in 0..MaxArgc}

\* sys_execv(userprog, userargs) entered by process 1 with valid user pointers
ExecvCall(prog, args) ==
    /\ Running(1)
    /\ ex.phase \in {"none", "failed"}
    /\ ex' = [phase |-> "call", prog |-> prog, args |-> args, err |-> "OK",
              argv |-> EmptyKbuf, argvp |-> <<>>, argc |-> 0, argv_ptr |-> 0,
              stackptr |-> StackTop, mem |-> EmptyStack]
    /\ last' = Last("execv_call", 0, "OK", 0)
    /\ UNCHANGED <<pid_table, of_t, oft_l, fd_t, pstate, p_pid, wtarget, exit_log, reaped,
                   panicked, vn_data, io, fdt_l, kheap>>

\* sys_execv up to the end of the copy loop; an error return ends the call
ExecvCopyin ==
    /\ Running(1)
    /\ ex.phase = "call"
    /\ LET r == execv_copyin(ex.prog, ex.args)
       IN  /\ ex' = [ex EXCEPT !.phase = IF r.err = "OK" THEN "copied" ELSE "failed",
                               !.err = r.err, !.argv = r.argv, !.argvp = r.argvp]
           /\ last' = Last("execv_copyin", 0, r.err, 0)
    /\ UNCHANGED <<pid_table, of_t, oft_l, fd_t, pstate, p_pid, wtarget, exit_log, reaped,
                   panicked, vn_data, io, fdt_l, kheap>>

\* sys_execv from as_define_stack to enter_new_process, the program loaded
ExecvStack ==
    /\ Running(1)
    /\ ex.phase = "copied"
    /\ LET r == execv_stack(ex.argv, ex.argvp, StackTop)
       IN  ex' = [ex EXCEPT !.phase = "entered", !.argc = r.argc, !.argv_ptr = r.argv_ptr,
                            !.stackptr = r.stackptr, !.mem = r.mem]
    /\ last' = Last("execv_enter", 0, "OK", 0)
    /\ UNCHANGED <<pid_table, of_t, oft_l, fd_t, pstate, p_pid, wtarget, exit_log, reaped,
                   panicked, vn_data, io, fdt_l, kheap>>

ArgNext ==
    \/ \E prog \in ArgProgs, args \in ArgVectors : ExecvCall(prog, args)
    \/ ExecvCopyin
    \/ ExecvStack

ArgSpec == Init /\ [][ArgNext]_vars

Next == FdNext \/ ShareNext \/ PidNext \/ IoNext \/ ModeNext \/ SeekNext \/ DupNext \/ ForkIoNext
           \/ WrapNext \/ ForkFailNext \/ ArgNext

Spec == Init /\ [][Next]_vars

\* ------------------------------------------------------------ properties
Exists(p) == pstate[p] # "none"

\* the descriptor-table entries of existing processes that hold slot index s
Refs(s) ==
    {pf \in Procs \X Fds : Exists(pf[1]) /\ fd_t[pf[1]].valid /\ fd_t[pf[1]].e[pf[2]] = s}

\* C1: in every reachable state the refcount of each live open file equals the
\* number of non-CLOSED descriptor entries, over the descriptor tables of all
\* existing processes, that hold its slot index.
C1_RefcountInvariant ==
    \A s \in Fds : of_t[s].st = "live" => of_t[s].rc = Cardinality(Refs(s))

\* C2: in every reachable state every non-CLOSED entry of every process's
\* descriptor table is the index of a slot that holds a live open file.
C2_DescriptorsLive ==
    \A p \in Procs, fd \in Fds :
        (Exists(p) /\ fd_t[p].valid /\ fd_t[p].e[fd] # FILE_CLOSED)
            => of_t[fd_t[p].e[fd]].st = "live"

\* C3: in every reachable state every non-empty slot of the open-file table is
\* held by at least one non-CLOSED descriptor entry of an existing process.
C3_NoOrphanSlot ==
    \A s \in Fds : of_t[s].st # "null" => Refs(s) # {}

\* C4: close(fd) on an open descriptor sets the entry to CLOSED and removes one
\* reference: with other references left the refcount drops by one, and with the
\* last reference the slot becomes empty in the same step.
C4_CloseReleasesSlot ==
    [][\A p \in Procs, fd \in Fds :
          (/\ Close(p, fd)
           /\ fd_t[p].valid
           /\ fd_t[p].e[fd] # FILE_CLOSED
           /\ of_t[fd_t[p].e[fd]].st = "live"
           /\ ~panicked')
          => LET e == fd_t[p].e[fd] IN
             /\ fd_t'[p].e[fd] = FILE_CLOSED
             /\ IF of_t[e].rc > 1
                THEN of_t'[e] = [of_t[e] EXCEPT !.rc = @ - 1]
                ELSE of_t'[e] = NullFile]_vars

\* pid_wait returned 0 in the step that led to this state (sys_waitpid then
\* returned 0, or EFAULT when its copyout of the status failed)
WaitReturned == last.op \in {"waitpid", "wake"} /\ last.err \in {"OK", "EFAULT"}

\* C5: every PID that pid_create returns lies in PID_MIN..PID_MAX and is the PID
\* of no entry present in the table at that moment; so two processes hold the
\* same PID only when the entry of one of them has been reaped.
C5_PidFresh ==
    /\ [][\A p \in Procs :
            (last'.op = "fork" /\ last'.err = "OK" /\ Fork(p))
            => /\ last'.val \in PID_MIN..PID_MAX
               /\ pid_table[last'.val].st = "null"
               /\ \A i \in Pids : pid_table[i].st = "used" => pid_table[i].pid_id # last'.val]_vars
    /\ [](\A p, q \in Procs :
            (p # q /\ Exists(p) /\ Exists(q) /\ p_pid[p] = p_pid[q])
            => /\ p_pid[p] \in reaped
               /\ pstate[p] = "teardown" \/ pstate[q] = "teardown")

\* every PID of the range is in use at once, the last one just handed out
C5_Witness ==
    /\ last.op = "fork" /\ last.err = "OK" /\ last.val = PID_MAX
    /\ \A i \in Pids : pid_table[i].st = "used"

\* C6: pid_wait returns 0 only after pid_exit has run for the target, and the
\* status it hands back is the one given to that pid_exit, whether the caller
\* slept or not.
C6_WaitAfterExit ==
    WaitReturned => /\ exit_log[last.arg] # -1
                    /\ last.val = exit_log[last.arg]

\* a waiter that slept was woken and received a status other than the initial 0
C6_Witness == last.op = "wake" /\ last.err = "OK" /\ last.val = MaxStatus /\ MaxStatus > 0

Waiting(q) == pstate[q] \in {"sleep", "woken"}

\* C7: a parent waiting in pid_wait for a child on which pid_exit has run leaves
\* pid_wait (no wake-up is lost), as long as the kernel has not panicked; and a
\* waitpid on a child that has exited already returns without sleeping.
C7_WaitLiveness ==
    /\ \A q \in Procs :
          (Waiting(q) /\ exit_log[wtarget[q]] # -1) ~> (~Waiting(q) \/ panicked)
    /\ [][\A q \in Procs, pid \in Pids, options \in {0, WNOHANG, WUNTRACED} :
            (/\ pid_table[pid].st = "used"
             /\ pid_table[pid].ppid_id = p_pid[q]
             /\ pid_table[pid].pid_exited = 1
             /\ WaitCall(q, pid, options))
            => /\ pstate'[q] = "run"
               /\ last'.op = "waitpid" /\ last'.err \in {"OK", "EFAULT"}]_vars

\* the waiter went to sleep before the child exited and has now returned
C7_Witness == last.op = "wake" /\ last.err = "OK"

\* C8: after pid_wait has returned 0 for a PID its slot is empty, so pid_next can
\* hand the PID out again, and a waitpid on it before it is reallocated returns
\* ESRCH without sleeping.
C8_ReapFreesPid ==
    /\ [](WaitReturned => /\ pid_table[last.arg].st = "null"
                          /\ pid_next(pid_table) \in PID_MIN..last.arg)
    /\ [][\A q \in Procs, pid \in Pids, options \in {0, WNOHANG, WUNTRACED} :
            (pid \in reaped /\ pid_table[pid].st = "null" /\ WaitCall(q, pid, options))
            => /\ last'.err = "ESRCH"
               /\ pstate'[q] = "run"
               /\ UNCHANGED pid_table]_vars

\* fork has just been given a PID whose previous entry was reaped
C8_Witness == last.op = "fork" /\ last.err = "OK" /\ last.val \in reaped

\* what the calls' order of checks makes of a waitpid(pid, options) by caller:
\* "NONE" where none of the three errors is due
C9_Expected(caller, pid, options) ==
    IF pid < PID_MIN \/ pid > PID_MAX THEN "ESRCH"
    ELSE IF options \notin {0, WUNTRACED, WNOHANG} THEN "EINVAL"
    ELSE IF pid_table[pid].st = "null" THEN "ESRCH"
    ELSE IF pid_table[pid].st = "used" /\ pid_table[pid].ppid_id # caller THEN "ECHILD"
    ELSE "NONE"

\* C9 as stated: a failing waitpid has not slept and leaves the PID table
\* unchanged, whatever its error.
C9_FailingWaitUnchanged ==
    [][(last'.op \in {"waitpid", "wake"} /\ last'.err \notin {"OK", "SLEEP", "PANIC"})
          => /\ UNCHANGED pid_table
             /\ last'.op = "waitpid"]_vars

\* C9, amended: a waitpid that fails with ESRCH, EINVAL or ECHILD has not slept
\* and leaves the PID table unchanged; it returns ESRCH for a pid out of range or
\* an empty slot, EINVAL for bad options, ECHILD when the caller is not the
\* recorded parent; the only other failure, EFAULT, comes after the entry was reaped.
C9_CheckedWaitUnchanged ==
    [][/\ \A q \in Procs, pid \in WaitArgs, options \in WaitOptions :
            (/\ last'.op = "waitpid" /\ last'.arg = pid
             /\ C9_Expected(p_pid[q], pid, options) # "NONE"
             /\ WaitCall(q, pid, options))
            => /\ last' = Last("waitpid", pid, C9_Expected(p_pid[q], pid, options), -1)
               /\ UNCHANGED <<pid_table, pstate, wtarget, exit_log>>
       /\ (last'.op \in {"waitpid", "wake"} /\ last'.err \in {"ESRCH", "EINVAL", "ECHILD"})
            => UNCHANGED <<pid_table, pstate, wtarget>> /\ last'.op = "waitpid"
       /\ (last'.op \in {"waitpid", "wake"} /\ last'.err \notin {"OK", "SLEEP", "PANIC", "ESRCH", "EINVAL", "ECHILD"})
            => last'.err = "EFAULT" /\ pid_table'[last'.arg].st = "null"]_vars

\* a process that is not the parent of a live, unexited entry was refused, while
\* the entry's parent exists and can still wait for it
C9_Witness ==
    /\ last.op = "waitpid" /\ last.err = "ECHILD" /\ last.arg \in Pids
    /\ pid_table[last.arg].st = "used" /\ pid_table[last.arg].pid_exited = 0
    /\ \E q \in Procs : pstate[q] = "run" /\ p_pid[q] = pid_table[last.arg].ppid_id
    /\ \E g \in Procs : /\ pstate[g] = "run"
                        /\ pid_table[pid_table[last.arg].ppid_id].ppid_id = p_pid[g]

\* C10: a successful open returns the lowest CLOSED descriptor of the caller and
\* puts a new open file with refcount 1 and offset 0 in the lowest empty slot; a
\* freshly initialised table has the console on descriptors 0, 1, 2, opened in
\* that order, and nothing else.
C10_OpenFirstFit ==
    [][/\ \A p \in Procs, vn \in Files, flags \in Flags :
            (last'.op = "open" /\ last'.err = "OK" /\ Open(p, vn, flags))
            => LET fd == last'.val
                   of == fd_t'[p].e[fd]
               IN /\ fd \in Fds /\ fd_t[p].e[fd] = FILE_CLOSED
                  /\ \A i \in 0..(fd - 1) : fd_t[p].e[i] # FILE_CLOSED
                  /\ of \in Fds /\ of_t[of].st = "null"
                  /\ \A i \in 0..(of - 1) : of_t[i].st # "null"
                  /\ of_t'[of].st = "live" /\ of_t'[of].rc = 1 /\ of_t'[of].os = 0
                  /\ of_t'[of].vn = vn
                  /\ \A i \in Fds \ {fd} : fd_t'[p].e[i] = fd_t[p].e[i]
                  /\ \A i \in Fds \ {of} : of_t'[i] = of_t[i]
       /\ \A p \in Procs :
            (last'.op = "execv" /\ last'.err \in {"OK", "ENOENT"} /\ Exec(p))
            => /\ \A i \in Fds : (fd_t'[p].e[i] # FILE_CLOSED) <=> (i \in 0..2)
               /\ fd_t'[p].e[0] < fd_t'[p].e[1] /\ fd_t'[p].e[1] < fd_t'[p].e[2]
               /\ \A i \in 0..2 : of_t[fd_t'[p].e[i]].st = "null"]_vars

\* an open has filled descriptor 0, closed before, while descriptor 3 was free
\* too, and took a slot above the console's
C10_Witness ==
    /\ last.op = "open" /\ last.err = "OK" /\ last.val = 0
    /\ fd_t[1].e[0] > 2 /\ fd_t[1].e[3] = FILE_CLOSED

\* C11: open returns EMFILE only when the caller's descriptor table has no
\* FILE_CLOSED entry or the open-file table has no empty (NULL) slot at the time of
\* the call; the call then gives back the vnode reference vfs_open took and leaves
\* both tables as they were.
C11_OpenEmfile ==
    [][\A p \in Procs, vn \in Files, flags \in Flags :
          (last'.op = "open" /\ last'.err = "EMFILE" /\ Open(p, vn, flags)) =>
             /\ FirstClosedFd(fd_t[p].e) = -1 \/ FirstEmptySlot(of_t) = -1
             /\ fd_t' = fd_t
             /\ of_t' = of_t
             /\ file_open(fd_t[p], of_t, FirstClosedFd(fd_t[p].e), vn, flags).vrefs = 0]_vars

\* an open has returned EMFILE to a process that has a closed descriptor: the
\* open-file table was the full one
C11_Witness ==
    /\ last.op = "open" /\ last.err = "EMFILE"
    /\ \E p \in Procs : Running(p) /\ fd_t[p].valid /\ FirstClosedFd(fd_t[p].e) # -1
    /\ FirstEmptySlot(of_t) = -1

\* the offset a read, write or lseek of p through fd starts from
OffsetOf(p, fd) == of_t[fd_t[p].e[fd]].os

\* C12: a successful dup2(oldfd, newfd) with oldfd # newfd and newfd closed makes
\* table[newfd] equal to table[oldfd], adds exactly 1 to the reference count of the
\* shared open file and changes no other descriptor and no other open file; a close
\* of a descriptor destroys its open file exactly when no other descriptor refers to
\* it (so of the two closes the second one, whichever it is, destroys it); and a
\* read or write through a descriptor moves the offset seen through every
\* descriptor that shares the open file.
C12_Dup2Shares ==
    /\ [][\A p \in Procs, oldfd \in Fds, newfd \in Fds :
            (/\ last'.op = "dup2" /\ last'.err = "OK"
             /\ oldfd # newfd
             /\ fd_t[p].e[newfd] = FILE_CLOSED
             /\ Dup2(p, oldfd, newfd)) =>
               LET s == fd_t[p].e[oldfd] IN
               /\ last'.val = newfd
               /\ fd_t'[p].e[newfd] = s
               /\ fd_t'[p].e[oldfd] = s
               /\ of_t[s].st = "live" /\ of_t'[s] = [of_t[s] EXCEPT !.rc = @ + 1]
               /\ \A fd \in Fds \ {newfd} : fd_t'[p].e[fd] = fd_t[p].e[fd]
               /\ \A t \in Fds \ {s} : of_t'[t] = of_t[t]]_vars
    /\ [][\A p \in Procs, fd \in Fds :
            (/\ last'.op = "close" /\ last'.err = "OK"
             /\ Close(p, fd)) =>
               LET s == fd_t[p].e[fd] IN
               /\ of_t[s].st = "live"
               /\ (of_t'[s].st = "freed") <=> (\A fd2 \in Fds \ {fd} : fd_t[p].e[fd2] # s)
               /\ of_t'[s].st # "freed" => of_t'[s] = [of_t[s] EXCEPT !.rc = @ - 1]]_vars
    /\ [][\A p \in Procs, fd \in Fds :
            (/\ last'.op \in {"read", "write"} /\ last'.err = "OK"
             /\ pstate[p] = "io"
             /\ fd_t[p].e[fd] = io[p].of
             /\ (ReadDone(p) \/ WriteDone(p))) =>
               OffsetOf(p, fd)' = OffsetOf(p, fd) + last'.val]_vars

\* a dup2 onto a closed descriptor has succeeded: two descriptors share an open
\* file that counts two references
C12_Witness ==
    /\ last.op = "dup2" /\ last.err = "OK" /\ last.arg # last.val
    /\ \E p \in Procs :
          /\ Running(p)
          /\ fd_t[p].e[last.arg] # FILE_CLOSED
          /\ fd_t[p].e[last.val] = fd_t[p].e[last.arg]
          /\ of_t[fd_t[p].e[last.arg]].rc = 2

\* C13: dup2(oldfd, newfd) with both descriptors open on different open files
\* returns newfd; afterwards table[newfd] = table[oldfd], oldfd's open file has one
\* more reference and the open file newfd referred to has lost one (it is destroyed
\* and its slot emptied if that was the last).
C13_Dup2OntoOpen ==
    [][\A p \in Procs, oldfd \in Fds, newfd \in Fds :
          (/\ fd_t[p].valid
           /\ fd_t[p].e[oldfd] # FILE_CLOSED /\ fd_t[p].e[newfd] # FILE_CLOSED
           /\ fd_t[p].e[oldfd] # fd_t[p].e[newfd]
           /\ last'.op = "dup2"
           /\ Dup2(p, oldfd, newfd)) =>
             LET s == fd_t[p].e[oldfd]
                 t == fd_t[p].e[newfd]
             IN  /\ last'.err = "OK" /\ last'.val = newfd
                 /\ fd_t'[p].e[newfd] = s
                 /\ of_t'[s].rc = of_t[s].rc + 1
                 /\ IF of_t[t].rc = 1 THEN of_t'[t].st = "null"
                                      ELSE of_t'[t].rc = of_t[t].rc - 1]_vars

\* no descriptor-table lock and no open-file-table lock is held
NoLockHeld == oft_l = NoProc /\ \A l \in LockIds : fdt_l[l] = NoProc

\* C14 as stated: dup2 fails with EBADF when oldfd or newfd is outside
\* [0, OPEN_MAX) or when table[oldfd] is CLOSED; the failure changes no descriptor
\* and no reference count and leaves no lock held; dup2(fd, fd) with fd in range
\* returns fd and changes nothing.
C14_Dup2Ebadf ==
    [][\A p \in Procs, oldfd \in FdArgs, newfd \in FdArgs :
          (last'.op = "dup2" /\ fd_t[p].valid /\ Dup2(p, oldfd, newfd)) =>
             /\ (oldfd \notin Fds \/ newfd \notin Fds \/ fd_t[p].e[oldfd] = FILE_CLOSED)
                   => last'.err = "EBADF"
             /\ last'.err = "EBADF" => UNCHANGED <<fd_t, of_t>> /\ NoLockHeld'
             /\ (oldfd \in Fds /\ newfd = oldfd)
                   => last'.err = "OK" /\ last'.val = oldfd /\ UNCHANGED <<fd_t, of_t, oft_l, fdt_l>>]_vars

\* C14, amended: dup2 fails with EBADF when oldfd or newfd is outside
\* [0, OPEN_MAX) or when oldfd # newfd and table[oldfd] is CLOSED; the failure
\* changes no descriptor and no reference count and leaves no lock held;
\* dup2(fd, fd) with fd in range returns fd and changes nothing, whether fd is open
\* or not.
C14_Dup2EbadfDistinct ==
    [][\A p \in Procs, oldfd \in FdArgs, newfd \in FdArgs :
          (last'.op = "dup2" /\ fd_t[p].valid /\ Dup2(p, oldfd, newfd)) =>
             /\ (oldfd \notin Fds \/ newfd \notin Fds
                   \/ (oldfd # newfd /\ fd_t[p].e[oldfd] = FILE_CLOSED))
                   => last'.err = "EBADF"
             /\ last'.err = "EBADF" => UNCHANGED <<fd_t, of_t>> /\ NoLockHeld'
             /\ (oldfd \in Fds /\ newfd = oldfd)
                   => last'.err = "OK" /\ last'.val = oldfd /\ UNCHANGED <<fd_t, of_t, oft_l, fdt_l>>]_vars

\* a dup2 has failed with EBADF in a process that has descriptor 0 closed and
\* descriptor 1 open
C14_Witness ==
    /\ last.op = "dup2" /\ last.err = "EBADF"
    /\ \E p \in Procs :
          /\ Running(p) /\ fd_t[p].valid
          /\ fd_t[p].e[0] = FILE_CLOSED /\ fd_t[p].e[1] # FILE_CLOSED
    /\ NoLockHeld

\* C15: fork gives the child the parent's descriptor entries, so a descriptor open
\* at fork refers to the same open file, and the same offset, in both: a read or
\* write of n bytes through it in one process moves the offset the other process
\* uses by n, a write puts its bytes where that shared offset pointed, and a
\* successful lseek in one process sets the offset the other uses.
C15_ForkSharesOffset ==
    /\ [][\A p \in Procs :
            (last'.op = "fork" /\ last'.err = "OK" /\ Fork(p)) =>
               /\ \A fd \in Fds : fd_t'[last'.arg].e[fd] = fd_t[p].e[fd]
               /\ \A fd \in Fds : fd_t'[p].e[fd] = fd_t[p].e[fd]
               /\ \A i \in Fds : of_t'[i].st = of_t[i].st /\ of_t'[i].os = of_t[i].os]_vars
    /\ [][\A p \in Procs, q \in Procs, fd \in Fds :
            (/\ last'.op \in {"read", "write"} /\ last'.err = "OK"
             /\ q # p /\ pstate[p] = "io" /\ Exists(q)
             /\ fd_t[p].e[fd] = io[p].of /\ fd_t[q].e[fd] = io[p].of
             /\ (ReadDone(p) \/ WriteDone(p))) =>
               /\ OffsetOf(q, fd)' = OffsetOf(q, fd) + last'.val
               /\ (last'.op = "write" /\ of_t[io[p].of].vn \in Files) =>
                     \A i \in 1..last'.val :
                        vn_data'[of_t[io[p].of].vn][OffsetOf(q, fd) + i] = p]_vars
    /\ [][\A p \in Procs, q \in Procs, fd \in ShareFdArgs,
             pos \in SharePos, whence \in ShareWhence :
            (/\ last'.op = "lseek" /\ last'.err = "OK"
             /\ q # p /\ Exists(q)
             /\ fd_t[q].e[fd] = fd_t[p].e[fd]
             /\ Lseek(p, fd, pos, whence)) =>
               OffsetOf(q, fd)' = last'.val]_vars

\* the first process wrote one byte, forked, and the child wrote one byte through
\* the inherited descriptor: the file holds both, and the offset the parent's next
\* call starts from is 2
C15_Witness ==
    /\ last.op = "write" /\ last.err = "OK"
    /\ vn_data["f"] = <<1, 2>>
    /\ Running(1) /\ Running(2)
    /\ OffsetOf(1, 3) = 2

\* fd is no descriptor of p: it is out of range or its entry is FILE_CLOSED
BadFd(p, fd) == fd \notin Fds \/ fd_t[p].e[fd] = FILE_CLOSED

\* a call that failed with EBADF and changed neither table and holds no lock
EbadfNoChange == last'.err = "EBADF" /\ UNCHANGED <<fd_t, of_t>> /\ NoLockHeld'

\* C16 as stated: read, write, close and lseek return EBADF whenever fd < 0,
\* fd >= OPEN_MAX or table[fd] is CLOSED; the call changes no descriptor entry, no
\* offset and no reference count, and holds no lock when it returns.
C16_BadFdEbadf ==
    [][\A p \in Procs, fd \in IoFdArgs :
          (fd_t[p].valid /\ BadFd(p, fd)) =>
             /\ \A n \in IoSizes :
                   /\ (last'.op = "read" /\ Read(p, fd, n)) => EbadfNoChange
                   /\ (last'.op = "write" /\ Write(p, fd, n)) => EbadfNoChange
             /\ (last'.op = "close" /\ Close(p, fd)) => EbadfNoChange
             /\ \A pos \in SharePos, whence \in SeekWhence :
                   (last'.op = "lseek" /\ Lseek(p, fd, pos, whence)) => EbadfNoChange]_vars

\* C16, amended: read, write and close return EBADF whenever fd < 0,
\* fd >= OPEN_MAX or table[fd] is CLOSED; lseek returns EBADF when fd is out of
\* range, and when table[fd] is CLOSED and whence is one of SEEK_SET, SEEK_CUR,
\* SEEK_END (with another whence it returns EINVAL).  In each of these cases the
\* call changes no descriptor entry, no offset and no reference count, and holds
\* no lock when it returns.
C16_BadFdEbadfWhence ==
    [][\A p \in Procs, fd \in IoFdArgs :
          (fd_t[p].valid /\ BadFd(p, fd)) =>
             /\ \A n \in IoSizes :
                   /\ (last'.op = "read" /\ Read(p, fd, n)) => EbadfNoChange
                   /\ (last'.op = "write" /\ Write(p, fd, n)) => EbadfNoChange
             /\ (last'.op = "close" /\ Close(p, fd)) => EbadfNoChange
             /\ \A pos \in SharePos, whence \in SeekWhence :
                   (last'.op = "lseek" /\ Lseek(p, fd, pos, whence)) =>
                      IF fd \in Fds /\ whence \notin {SEEK_SET, SEEK_CUR, SEEK_END}
                      THEN last'.err = "EINVAL" /\ UNCHANGED <<fd_t, of_t>> /\ NoLockHeld'
                      ELSE EbadfNoChange]_vars

\* a call on descriptor 3, which was open and has been closed, has failed with
\* EBADF
C16_Witness ==
    /\ last.op \in {"read", "write", "lseek", "close"} /\ last.err = "EBADF"
    /\ Running(1) /\ fd_t[1].valid
    /\ fd_t[1].e[3] = FILE_CLOSED /\ of_t[3].st = "freed"
    /\ fd_t[1].e[0] # FILE_CLOSED

\* C17: the access mode kept for an open file is the open flags without the
\* non-access flags; a read through a descriptor whose mode is O_WRONLY and a write
\* through one whose mode is O_RDONLY return EBADF without a VFS call and without
\* touching the offset; every other read or write goes on to the VFS (O_RDWR
\* permits both).
C17_AccessMode ==
    /\ [][\A p \in Procs, vn \in Files, flags \in IoFlags :
            (last'.op = "open" /\ last'.err = "OK" /\ Open(p, vn, flags)) =>
               LET am == of_t'[fd_t'[p].e[last'.val]].am IN
               /\ am \in {O_RDONLY, O_WRONLY, O_RDWR}
               /\ flags = am \/ flags = O_CREAT + am]_vars
    /\ [][\A p \in Procs, fd \in Fds, n \in IoSizes :
            (/\ fd_t[p].valid /\ fd_t[p].e[fd] # FILE_CLOSED
             /\ of_t[fd_t[p].e[fd]].st = "live"
             /\ last'.op \in {"read", "write"}) =>
               LET am == of_t[fd_t[p].e[fd]].am IN
               /\ (last'.op = "read" /\ Read(p, fd, n)) =>
                     IF am = O_WRONLY
                     THEN /\ last'.err = "EBADF" /\ NoLockHeld'
                          /\ UNCHANGED <<of_t, fd_t, vn_data, io, pstate>>
                     ELSE last'.err = "VOP" /\ pstate'[p] = "io"
               /\ (last'.op = "write" /\ Write(p, fd, n)) =>
                     IF am = O_RDONLY
                     THEN /\ last'.err = "EBADF" /\ NoLockHeld'
                          /\ UNCHANGED <<of_t, fd_t, vn_data, io, pstate>>
                     ELSE last'.err = "VOP" /\ pstate'[p] = "io"]_vars

\* a read has failed with EBADF while descriptor 3 is open write-only on the
\* regular file, whose offset is still 0
C17_Witness ==
    /\ last.op = "read" /\ last.err = "EBADF"
    /\ Running(1) /\ fd_t[1].e[3] = 3
    /\ of_t[3].st = "live" /\ of_t[3].am = O_WRONLY /\ of_t[3].os = 0

\* the offset lseek(fd, pos, whence) asks for, as a number
SeekTarget(p, fd, pos, whence) ==
    IF whence = SEEK_SET THEN pos
    ELSE IF whence = SEEK_CUR THEN OffsetOf(p, fd) + pos
    ELSE Len(vn_data[of_t[fd_t[p].e[fd]].vn]) + pos

\* fd is a descriptor of p that is open on an open file
LiveFd(p, fd) ==
    fd \in Fds /\ fd_t[p].valid /\ fd_t[p].e[fd] # FILE_CLOSED /\ of_t[fd_t[p].e[fd]].st = "live"

C19_LseekResult ==
    [][\A p \in Procs, fd \in IoFdArgs, pos \in SeekPos, whence \in SeekWhence :
        (/\ last'.op = "lseek" /\ last'.err = "OK"
         /\ LiveFd(p, fd)
         /\ Lseek(p, fd, pos, whence)) =>
            /\ last'.val = SeekTarget(p, fd, pos, whence)
            /\ OffsetOf(p, fd)' = SeekTarget(p, fd, pos, whence)
            /\ (pos = 0 /\ whence = SEEK_CUR => UNCHANGED of_t)]_vars

\* C20: reads and writes on one open file by processes that share it through
\* fork are atomic with respect to each other: no two of them are under way at
\* once, nothing moves the offset or the file's bytes while one is under way, and
\* a write of n bytes that completes at offset o puts its bytes at [o, o + n),
\* leaves every other byte alone and the offset at o + n (a read of k bytes
\* leaves it at o + k); two writes of n and m bytes from o so end at o + n + m.
C20_IoAtomic ==
    /\ [](\A p \in Procs, q \in Procs :
            (p # q /\ pstate[p] = "io" /\ pstate[q] = "io") => io[p].of # io[q].of)
    /\ [](\A p \in Procs : pstate[p] = "io" => of_t[io[p].of].os = io[p].os)
    /\ [][\A p \in Procs :
            (pstate[p] = "io" /\ pstate'[p] = "io") =>
                /\ of_t'[io[p].of] = of_t[io[p].of]
                /\ vn_data'[of_t[io[p].of].vn] = vn_data[of_t[io[p].of].vn]]_vars
    /\ [][\A p \in Procs :
            (/\ last'.err = "OK" /\ last'.op \in {"read", "write"}
             /\ pstate[p] = "io" /\ pstate'[p] = "run") =>
                LET e == io[p].of
                    o == of_t[e].os
                    old == vn_data[of_t[e].vn]
                    new == vn_data'[of_t[e].vn]
                IN  /\ of_t'[e].os = o + last'.val
                    /\ last'.op = "read" => new = old /\ last'.val <= io[p].n
                    /\ last'.op = "write" =>
                          /\ last'.val = io[p].n
                          /\ Len(new) >= o + io[p].n
                          /\ \A i \in 1..Len(new) :
                                IF i \in (o + 1)..(o + io[p].n) THEN new[i] = p
                                ELSE i <= Len(old) => new[i] = old[i]]_vars

\* process 2 is in the middle of a write that started at offset 2, behind the two
\* bytes process 1 wrote, while process 1 runs and has the same open file
C20_Witness ==
    /\ pstate[2] = "io" /\ io[2].op = "write" /\ io[2].os = 2
    /\ vn_data["f"] = <<1, 1>>
    /\ pstate[1] = "run" /\ LiveFd(1, 3) /\ fd_t[1].e[3] = io[2].of

\* C21: a successful read or write moves the open file's offset on by exactly the
\* number of bytes it reports, from the offset current at the call; a write of n
\* bytes puts its n bytes there, and a read hands over the bytes the file holds
\* between the old and the new offset (so what was written at offset 0 is read
\* back after lseek(fd, 0, SEEK_SET)).
C21_OffsetAdvance ==
    [][\A p \in Procs :
        (/\ last'.err = "OK" /\ last'.op \in {"read", "write"}
         /\ pstate[p] = "io" /\ pstate'[p] = "run") =>
            LET e == io[p].of
                o == of_t[e].os
                vn == of_t[e].vn
            IN  /\ io[p].os = o
                /\ of_t'[e].os = o + last'.val
                /\ last'.val \in 0..io[p].n
                /\ (last'.op = "write" /\ VOP_ISSEEKABLE(vn)) =>
                      /\ last'.val = io[p].n
                      /\ SubSeq(vn_data'[vn], o + 1, o + io[p].n) = [i \in 1..io[p].n |-> p]
                /\ (last'.op = "read" /\ VOP_ISSEEKABLE(vn)) =>
                      /\ last'.buf = SubSeq(vn_data[vn], o + 1, o + last'.val)
                      /\ o + io[p].n <= Len(vn_data[vn]) => last'.val = io[p].n
                      /\ UNCHANGED vn_data]_vars

\* C22: when fork fails at a step, everything the call had allocated before has
\* been released when the error is returned (nothing of the call is left on the
\* heap, the PID table has no entry for the child) and the caller's state is as
\* before the call.
C22_ForkFailureReleases ==
    [][(last'.op = "fork" /\ last'.err # "OK") =>
          /\ kheap' = kheap
          /\ pid_table' = pid_table
          /\ UNCHANGED <<of_t, fd_t, pstate, p_pid, panicked>>]_vars

\* C23: after a successful exec, whatever the caller had open, its descriptor
\* table has exactly descriptors 0, 1 and 2 open, each on an open file of its
\* own that did not exist before, for the console, 0 read-only, 1 and 2
\* write-only, with refcount 1 and offset 0; every other descriptor is CLOSED.
C23_ExecResetsDescriptors ==
    [][\A p \in Procs :
        (last'.op = "execv" /\ last'.err = "OK" /\ Exec(p)) =>
            /\ fd_t'[p].valid
            /\ \A i \in Fds \ (0..2) : fd_t'[p].e[i] = FILE_CLOSED
            /\ \A i \in 0..2 :
                  LET e == fd_t'[p].e[i] IN
                  /\ e \in Fds
                  /\ of_t[e].st = "null"
                  /\ of_t'[e] = [st |-> "live", vn |-> "con:",
                                 am |-> IF i = 0 THEN O_RDONLY ELSE O_WRONLY,
                                 rc |-> 1, os |-> 0]
                  /\ \A j \in 0..2 : j # i => fd_t'[p].e[j] # e]_vars

\* an exec has succeeded for a process that had closed descriptor 1 and made it
\* a duplicate of descriptor 0: the old open file still counts two references,
\* and descriptor 1 is now on a console file of its own
C23_Witness ==
    /\ last.op = "execv" /\ last.err = "OK"
    /\ of_t[0].st = "live" /\ of_t[0].rc = 2 /\ of_t[1].st = "freed"
    /\ fd_t[1].e[0] = 3 /\ fd_t[1].e[1] = 4 /\ of_t[4].am = O_WRONLY

\* bytes of strings i..Len(args) with their terminators
RECURSIVE StrBytes(_, _)
StrBytes(args, i) == IF i > Len(args) THEN 0 ELSE Len(args[i]) + 1 + StrBytes(args, i + 1)

\* the stack of an entered program, the stack pointer `below` words under argv
ExecStackLayout(below) ==
    ex.phase = "entered" =>
        LET args == ex.args
            argc == Len(args)
            bytes(a, n) == [j \in 1..n |-> ex.mem[a + j - 1]]
            addr(i) == StackTop - 4 - StrBytes(args, i)
            S == addr(1)
            A == (S - 4) - ((S - 4) % 4)
        IN  /\ ex.argc = argc
            /\ bytes(StackTop - 4, 4) = <<0, 0, 0, 0>>
            /\ \A i \in 1..argc : bytes(addr(i), Len(args[i]) + 1) = Append(args[i], 0)
            /\ A + 4 <= S /\ S - (A + 4) < 4
            /\ bytes(A, 4) = <<0, 0, 0, 0>>
            /\ ex.argv_ptr = A - 4 * argc
            /\ ex.argv_ptr % 4 = 0
            /\ \A i \in 1..argc : bytes(ex.argv_ptr + 4 * (i - 1), 4) = word(addr(i))
            /\ bytes(ex.argv_ptr + 4 * argc, 4) = <<0, 0, 0, 0>>
            /\ ex.stackptr = ex.argv_ptr - 4 * below

\* C24 as stated: exec's stack holds, from high to low addresses, a null word,
\* the strings argv[argc-1]..argv[0] with their terminators, padding to a
\* 4-byte boundary, a null pointer word and the pointers to
\* argv[argc-1]..argv[0]; argv is the aligned address of the pointer to
\* argv[0], argc is the number of strings, and the stack pointer passed is one
\* word below argv
C24_StackOneWordBelow == ExecStackLayout(1)

\* C24 (amended): the same layout, argv and argc, but the stack pointer passed
\* is two words below argv: sys_execv steps down once more after taking argv
C24_StackLayout == ExecStackLayout(2)

C24_Witness ==
    /\ ex.phase = "entered"
    /\ ex.args = <<<<1>>, <<2, 1>>, <<>>>>
    /\ ex.argc = 3
    /\ ex.argv_ptr = StackTop - 28
    /\ ex.stackptr = ex.argv_ptr - 8

\* C28: exec never writes outside its ARG_MAX-byte buffer: when the copy loop
\* has ended, with or without an error, no byte at index ARG_MAX or above has
\* been stored, and a vector whose strings with their terminators exceed
\* ARG_MAX bytes has been rejected with E2BIG
C28_CopyinInBounds ==
    (ex.phase \in {"copied", "failed"} /\ Len(ex.prog) < PATH_MAX) =>
        /\ \A j \in KbufIdx : j >= ARG_MAX => ex.argv[j] = -1
        /\ StrBytes(ex.args, 1) > ARG_MAX => ex.err = "E2BIG"

\* C25: lock order: no thread acquires a descriptor-table lock while it holds
\* the open-file-table lock (a thread that holds both took the descriptor-table
\* lock first)
C25_LockOrder ==
    [][\A p \in Procs :
          (fd_t[p].valid /\ fdt_l[fd_t[p].lk] # p /\ fdt_l'[fd_t[p].lk] = p) => oft_l # p]_vars

\* C30: no thread in a file call asks for a lock it already holds: no thread
\* sleeps for ever on the open-file-table lock it holds itself, and the kernel
\* does not panic in lock_acquire with the caller as the holder
C30_NoSelfDeadlock ==
    \A p \in Procs :
        oft_l = p => /\ pstate[p] # "hung"
                     /\ ~(panicked /\ last.op = "dup2")

\* C26: zombie rule: pid_exit leaves the entry in its slot with exited set and
\* the status recorded; from then on the entry does not change and no fork
\* returns its PID, whatever creates, exits and waits run, until a pid_wait on
\* it by the process whose PID is the entry's recorded parent returns
C26_ZombieRule ==
    [][/\ (last'.op = "exit" /\ last'.err = "OK") =>
             pid_table'[last'.arg] = [pid_table[last'.arg] EXCEPT !.pid_exited = 1,
                                                                  !.pid_estatus = last'.val]
       /\ \A i \in Pids :
             (pid_table[i].st = "used" /\ pid_table[i].pid_exited = 1) =>
                /\ (last'.op = "fork" /\ last'.err = "OK") => last'.val # i
                /\ \/ pid_table'[i] = pid_table[i]
                   \/ /\ last'.op \in {"waitpid", "wake"}
                      /\ last'.arg = i
                      /\ last'.val = pid_table[i].pid_estatus
                      /\ \E q \in Procs : /\ p_pid[q] = pid_table[i].ppid_id
                                           /\ pstate[q] \in {"run", "woken"}
                                           /\ pstate'[q] = "run"
                                           /\ pstate[q] = "woken" => wtarget[q] = i]_vars

\* a zombie with a status other than 0 has just survived the wait of a process
\* that is not its parent, with a younger process in the table
C26_Witness ==
    /\ last.op = "waitpid" /\ last.err = "ECHILD"
    /\ last.arg \in Pids
    /\ pid_table[last.arg].st = "used"
    /\ pid_table[last.arg].pid_exited = 1
    /\ pid_table[last.arg].pid_estatus = MaxStatus
    /\ \E j \in Pids : j > last.arg /\ pid_table[j].st = "used" /\ pid_table[j].pid_exited = 0

\* C27: the offset is a signed 64-bit quantity: for every pos >= 0,
\* lseek(fd, pos, SEEK_SET) on a descriptor of a seekable file succeeds, returns
\* pos and stores pos (so that lseek(fd, 0, SEEK_CUR) returns pos again); a pos
\* of 2^31 or more is neither truncated nor rejected
C27_WideOffset ==
    [][\A p \in Procs, fd \in IoFdArgs, pos \in SeekPos :
        (/\ last'.op = "lseek"
         /\ pos >= 0
         /\ LiveFd(p, fd)
         /\ VOP_ISSEEKABLE(of_t[fd_t[p].e[fd]].vn)
         /\ Lseek(p, fd, pos, SEEK_SET)) =>
            /\ last'.err = "OK"
            /\ last'.val = pos
            /\ OffsetOf(p, fd)' = pos]_vars

\* C29: every process's descriptor table is guarded by a lock of its own: the
\* tables of two processes never have the same lock object, so after fork the
\* parent's and the child's locks are distinct
C29_OwnLock ==
    \A p \in Procs, q \in Procs :
        (p # q /\ fd_t[p].valid /\ fd_t[q].valid) => fd_t[p].lk # fd_t[q].lk

\* C31: a PID is not handed out while the process that held it still exists:
\* a fork that succeeds returns a PID that no process has at that moment, the
\* processes that are still in their exit teardown included
C31_NoEarlyReuse ==
    [][(last'.op = "fork" /\ last'.err = "OK") =>
          \A q \in Procs : pstate[q] # "none" => p_pid[q] # last'.val]_vars

\* C32: right after pidtable_init every slot PID_MIN..PID_MAX is empty, so at
\* any time a slot is either empty or holds the entry that pid_create made for
\* its index, and pid_create fails only when all of PID_MIN..PID_MAX are in use
C32_TableStartsEmpty ==
    /\ \A i \in Pids : \/ pid_table[i].st = "null"
                        \/ (pid_table[i].st = "used" /\ pid_table[i].pid_id = i)
    /\ pid_next(pid_table) = -1 => \A i \in Pids : pid_table[i].st = "used"
====
